---- MODULE Spec2Model ----
(***************************************************************************)
(* Model of the integral calculator of Keco4220/Repositotio-1.             *)
(*                                                                         *)
(* The repository holds two implementations of the same engine:            *)
(*   "CI"  : src/Clase_Integrales.py      (procedural; the definitions     *)
(*           that are in force are the second copy, lines 434-1002)        *)
(*   "Int" : src/Clase Integrales/Int.py  (object oriented)                *)
(* Every operation is modelled once per implementation, from its code.     *)
(*                                                                         *)
(* Numbers.  Points of the real line and function values are exact         *)
(* rationals <<num, den>> (den > 0, lowest terms).  Floating-point         *)
(* rounding is not modelled; NaN, the infinities, None and a raised        *)
(* exception are explicit outcomes of an evaluation.                       *)
(***************************************************************************)
EXTENDS Integers, Sequences, FiniteSets, TLC

VARIABLES
    pc,       \* position of the modelled call / of the orchestrator
    impl,     \* "CI" or "Int": the implementation that runs
    f,        \* the callable handed to the engine
    a, b,     \* integration bounds
    orden,    \* iteration order of set(puntos_especiales)
    n,        \* number of subintervals
    method,   \* Riemann method
    ret,      \* what the last call returned (or raised)
    evals,    \* the points passed to f by the last call, in call order
    integrador, \* the integrator the orchestrator selected (opcion 1 or 2)
    log,      \* the orchestrator's calls and messages of the current request
    entrada,  \* what the user typed in the current request, and what the
              \* prompts made of it
    suma_actual, \* the running sum of the animation (nonlocal of animate)
    poligonos,   \* how many polygons the animation's list holds
    frame        \* the index animate was last called with, -1 before the first

vars == <<pc, impl, f, a, b, orden, n, method, ret, evals, integrador, log, entrada,
          suma_actual, poligonos, frame>>

-----------------------------------------------------------------------------
(* Bounds of the model *)

\* stands for n_verificacion = 1000 (np.linspace(a, b, 1000)); 12 is the
\* least grid for which one gap can exceed mean + 3*std at all
GridPoints == 12
\* stands for the 100 points of np.linspace(x_izq, x_der, 100)
DetailPoints == 4
\* stands for range(1, 21): denominators of the "common fractions"
MaxDenominator == 4
\* 1/TolInv stands for tolerancia = 1e-6
TolInv == 60
\* height of the jump of the step-shaped test functions
StepHeight == 5
\* a callable may change behaviour from its k-th call on, k <= MaxFailFrom
MaxFailFrom == 30
\* the Riemann calls use n in -1..MaxN
MaxN == 3
\* stands for the largest float: x**2 overflows when x*x > FloatMax
FloatMax == 1000
\* stands for the 100 subintervals _obtener_subintervalos falls back to
DefaultN_Int == 6
\* stands for the 53 bits of the significand of a Python float
MantissaBits == 8
\* the Riemann calls in float arithmetic use n in 1..MaxNFlo
MaxNFlo == 7
\* stand for the n = 10, 100, 1000 of the convergence runs
ConvN1 == 2
ConvN2 == 4
ConvN3 == 8

-----------------------------------------------------------------------------
(* Exact rationals *)

RECURSIVE GCD(_, _)
GCD(x, y) == IF y = 0 THEN x ELSE GCD(y, x % y)

Abs(x) == IF x < 0 THEN -x ELSE x

Rat(num, den) ==
    LET s == IF den < 0 THEN -1 ELSE 1
        g == GCD(Abs(num), Abs(den))
    IN  <<(s * num) \div g, (s * den) \div g>>

R(i) == <<i, 1>>
RAdd(x, y) == Rat(x[1] * y[2] + y[1] * x[2], x[2] * y[2])
RSub(x, y) == Rat(x[1] * y[2] - y[1] * x[2], x[2] * y[2])
RMul(x, y) == Rat(x[1] * y[1], x[2] * y[2])
RDiv(x, y) == Rat(x[1] * y[2], x[2] * y[1])
RLt(x, y) == x[1] * y[2] < y[1] * x[2]
RLe(x, y) == x[1] * y[2] <= y[1] * x[2]
RAbs(x) == <<Abs(x[1]), x[2]>>
\* Python's int(x): truncation towards zero
Trunc(x) == IF x[1] >= 0 THEN x[1] \div x[2] ELSE -((-x[1]) \div x[2])

RECURSIVE LCMDen(_, _)
\* least common multiple of the denominators of s[1..k]
LCMDen(s, k) ==
    IF k = 0 THEN 1
    ELSE LET l == LCMDen(s, k - 1) IN (l * s[k][2]) \div GCD(l, s[k][2])

RECURSIVE SumSeq(_, _)
SumSeq(s, k) == IF k = 0 THEN 0 ELSE SumSeq(s, k - 1) + s[k]

\* the elements of a finite set of rationals in ascending order
RECURSIVE SortAsc(_)
SortAsc(S) ==
    IF S = {} THEN <<>>
    ELSE LET m == CHOOSE x \in S : \A y \in S : RLe(x, y)
         IN  <<m>> \o SortAsc(S \ {m})

\* the same sequence, held as an explicit tuple
Tup(s) == s \o <<>>

Reverse(s) == Tup([k \in 1..Len(s) |-> s[Len(s) + 1 - k]])

-----------------------------------------------------------------------------
(* Callables.  A callable is a table over the points: base(x) everywhere    *)
(* except at the point `at`, where one evaluation has the outcome `und`.    *)
(* From its failFrom-th call on (failFrom > 0) every call has outcome `und` *)
(* (a closure whose state breaks).  wrap = "FuncionExpresion" puts the      *)
(* callable behind FuncionExpresion.evaluar.                                *)

NoPt == <<0, 0>>
Zero == R(0)

Val(v) == [t |-> "val", v |-> v]
Und(kind) == [t |-> kind, v |-> Zero]
Finite(o) == o.t = "val"

\* the value of the underlying Python expression where it is defined:
\* 1, x, x**2, a step, and "x + (pi := pi // 1 + 1)" in a namespace where
\* pi is still math.pi
Base(g, x) ==
    CASE g.base = "one"  -> R(1)
      [] g.base = "x"    -> x
      [] g.base = "sq"   -> RMul(x, x)
      [] g.base = "step" -> IF g.at = NoPt \/ RLt(x, g.at) THEN Zero ELSE R(StepHeight)
      [] g.base = "walrus" -> RAdd(x, R(4))

\* x**2 on a Python float raises OverflowError beyond the float range
Overflows(g, x) == g.base = "sq" /\ x[1] * x[1] > FloatMax * x[2] * x[2]

Table(g, x) ==
    IF g.at # NoPt /\ x = g.at /\ g.und # "val" THEN Und(g.und)
    ELSE IF Overflows(g, x) THEN Und("raise")
    ELSE Val(Base(g, x))

\* FuncionExpresion.evaluar: eval inside try, any Exception becomes NaN
FuncionExpresion_evaluar(o) == IF o.t = "raise" THEN Und("nan") ELSE o

\* the names Python's math module defines, among those the evaluators look up
MathModule == {"sin", "cos", "tan", "exp", "log", "log10", "sqrt", "pi", "e"}

\* the names evaluar_expresion reads from math while it builds its namespace
NamespaceNames == {"cot", "sin", "cos", "tan", "exp", "log", "log10", "sqrt", "pi", "e"}

\* evaluar_expresion: the namespace dictionary is built outside the try
\* block (a name math lacks raises AttributeError there); eval runs inside
\* it, and any Exception becomes None
evaluar_expresion(o) ==
    IF ~(NamespaceNames \subseteq MathModule) THEN Und("raise")
    ELSE IF o.t = "raise" THEN Und("none") ELSE o

\* what the namespace adds to the value of the k-th evaluation of a call.
\* FuncionExpresion keeps one dictionary per object: evaluar stores x in it
\* and eval binds the targets of assignment expressions in it, so
\* "pi := pi // 1 + 1" finds the pi the evaluation before left there.
\* evaluar_expresion builds a new dictionary at every evaluation
Namespace(g, k) ==
    IF g.base = "walrus" /\ g.wrap = "FuncionExpresion" /\ k >= 1
    THEN R(g.ns + k - 1) ELSE Zero

\* the function object after it has been evaluated at the points xs
Despues(g, xs) ==
    IF g.base = "walrus" /\ g.wrap = "FuncionExpresion"
    THEN [g EXCEPT !.ns = g.ns + Len(xs)] ELSE g

\* the k-th call of g, at point x
Outcome(g, x, k) ==
    LET tab == Table(g, x)
        raw == IF g.failFrom > 0 /\ k >= g.failFrom /\ g.und # "val"
               THEN Und(g.und)
               ELSE IF tab.t = "val" THEN Val(RAdd(tab.v, Namespace(g, k))) ELSE tab
    IN  CASE g.wrap = "FuncionExpresion"  -> FuncionExpresion_evaluar(raw)
          [] g.wrap = "evaluar_expresion" -> evaluar_expresion(raw)
          [] OTHER -> raw

-----------------------------------------------------------------------------
(* verificar_dominio *)

tolerancia == <<1, TolInv>>

\* np.linspace(lo, hi, num), 1-based
linspace(lo, hi, num) ==
    Tup([k \in 1..num |-> RAdd(lo, RDiv(RMul(R(k - 1), RSub(hi, lo)), R(num - 1)))])

\* the values as integers, in units of 1/L (L a common denominator)
Escala(vs, L) == Tup([k \in 1..Len(vs) |-> vs[k][1] * (L \div vs[k][2])])

\* np.abs(np.diff(valores))
diferencias(iv) == Tup([k \in 1..(Len(iv) - 1) |-> Abs(iv[k + 1] - iv[k])])

\* d[i] > mean(d) + 3 * std(d), with S the sum of d and Q the sum of its
\* squares: c*d[i] - S > 0 and (c*d[i] - S)^2 > 9 * (c*Q - S^2), c = Len(d)
SobreUmbral(d, S, Q) ==
    {i \in 1..Len(d) :
        /\ Len(d) * d[i] - S > 0
        /\ (Len(d) * d[i] - S) * (Len(d) * d[i] - S) > 9 * (Len(d) * Q - S * S)}

\* (mutation: no gap is ever suspicious)
umbral_cambio_Nunca(d) == {}

umbral_cambio(d) ==
    SobreUmbral(d, SumSeq(d, Len(d)), SumSeq(Tup([k \in 1..Len(d) |-> d[k] * d[k]]), Len(d)))

Valores(valores) == Tup([k \in 1..Len(valores) |-> valores[k].v])

\* np.where(diferencias > mean + 3*std): the indices i (1-based) of the gaps
\* between valores[i] and valores[i+1].  A non-finite value makes the
\* threshold NaN and every comparison False.
indices_sospechosos(valores) ==
    IF \E k \in 1..Len(valores) : ~Finite(valores[k]) THEN {}
    ELSE umbral_cambio(diferencias(Escala(Valores(valores),
                                          LCMDen(Valores(valores), Len(valores)))))

\* puntos_especiales, as a set (the code iterates over set(puntos_especiales))
valores_especiales == {<<22, 7>>, <<19, 7>>, <<7, 5>>, <<7, 4>>}  \* pi, e, sqrt(2), sqrt(3)

\* (mutation: the integers of the interval are left out)
puntos_especiales_SinEnteros(lo, hi) ==
    {p \in UNION {{Rat(j, i) : j \in 0..(i - 1)} : i \in 1..MaxDenominator}
            \cup valores_especiales : RLe(lo, p) /\ RLe(p, hi)}

\* (mutation: the tests a <= p <= b are left out)
puntos_especiales_SinFiltro(lo, hi) ==
    {R(i) : i \in Trunc(lo)..Trunc(hi)}
    \cup UNION {{Rat(j, i) : j \in 0..(i - 1)} : i \in 1..MaxDenominator}
    \cup valores_especiales

puntos_especiales(lo, hi) ==
    LET enteros == {R(i) : i \in {j \in Trunc(lo)..Trunc(hi) : RLe(lo, R(j)) /\ RLe(R(j), hi)}}
        \* for i in range(1, 21): for j in range(i): j/i
        fracs   == UNION {{Rat(j, i) : j \in 0..(i - 1)} : i \in 1..MaxDenominator}
        comunes == {p \in fracs : RLe(lo, p) /\ RLe(p, hi)}
        consts  == {v \in valores_especiales : RLe(lo, v) /\ RLe(v, hi)}
    IN  enteros \cup comunes \cup consts

\* One step of the procedure: call f at x, then test the result.
\*   chk = "skip": no test          chk = "all": None / NaN / inf  -> False
\*   chk = "nan" : np.isnan(f(x))   chk = "inf": np.isinf(f(x))
\*   chk = "all2": tests the result of the previous step too
\*   g: the call is inside a try block whose handler returns False
Step(x, chk, g) == [x |-> x, chk |-> chk, g |-> g]

Bad(o) == o.t \in {"none", "nan", "inf", "ninf"}

\* the test of one step s, o being what its call of f did and prev what the
\* call before did.  "go": the procedure continues; "False": it returns
\* False; "raise": an exception leaves verificar_dominio
StepTest(s, o, prev) ==
    CASE o.t = "raise" -> IF s.g THEN "False" ELSE "raise"
      [] s.chk = "skip" -> "go"
      [] s.chk = "all"  -> IF Bad(o) THEN "False" ELSE "go"
      [] s.chk = "all2" -> IF Bad(o) \/ Bad(prev) THEN "False" ELSE "go"
      \* np.isnan(None) / np.isinf(None) raise TypeError
      [] s.chk = "nan"  -> IF o.t = "none" THEN (IF s.g THEN "False" ELSE "raise")
                           ELSE IF o.t = "nan" THEN "False" ELSE "go"
      [] s.chk = "inf"  -> IF o.t = "none" THEN (IF s.g THEN "False" ELSE "raise")
                           ELSE IF o.t \in {"inf", "ninf"} THEN "False" ELSE "go"

\* step j of the plan, its call being call number k of g
StepResult(g, plan, j, k) ==
    StepTest(plan[j], Outcome(g, plan[j].x, k),
             Outcome(g, plan[IF j > 1 THEN j - 1 ELSE j].x, k - 1))

\* the procedure stops at the first of the steps that do not say "go"
FirstStop(g, plan, k, stops) ==
    IF stops = {} THEN [st |-> "go", calls |-> k + Len(plan) - 1]
    ELSE LET first == CHOOSE j \in stops : \A i \in stops : j <= i
         IN  [st |-> StepResult(g, plan, first, k + first - 1), calls |-> k + first - 1]

\* runs the plan, its first call being call number k
RunFrom(g, plan, k) ==
    FirstStop(g, plan, k, {j \in 1..Len(plan) : StepResult(g, plan, j, k + j - 1) # "go"})

\* (mutation: the tolerance probes are left out)
ProbePoints_NoProbes(p, lo, hi) == <<p>>

\* (mutation: both probes are made whatever the bounds)
ProbePoints_SinGuardas(p, lo, hi) == <<p, RSub(p, tolerancia), RAdd(p, tolerancia)>>

\* the steps of one special point: the point, then its two tolerance probes
\* when they pass the guards punto > a + tolerancia, punto < b - tolerancia
ProbePoints(p, lo, hi) ==
    <<p>>
    \o (IF RLt(RAdd(lo, tolerancia), p) THEN <<RSub(p, tolerancia)>> ELSE <<>>)
    \o (IF RLt(p, RSub(hi, tolerancia)) THEN <<RAdd(p, tolerancia)>> ELSE <<>>)

RECURSIVE Flatten(_, _)
\* concatenation of ss[1..k], a sequence of sequences
Flatten(ss, k) == IF k = 0 THEN <<>> ELSE Flatten(ss, k - 1) \o ss[k]

\* the points of steps 3b and 4, in the order the code visits them
SpecialOrder(lo, hi, ord) ==
    LET asc == SortAsc(puntos_especiales(lo, hi))
    IN  IF ord = "asc" THEN asc ELSE Reverse(asc)

SpecialSeq(lo, hi, ord) ==
    LET ps == SpecialOrder(lo, hi, ord)
    IN  Flatten([k \in 1..Len(ps) |-> ProbePoints(ps[k], lo, hi)], Len(ps))

DetailSeq(grid, idx) ==
    LET is == SortAsc({R(i) : i \in idx})
    IN  Flatten([k \in 1..Len(is) |->
                    linspace(grid[is[k][1]], grid[is[k][1] + 1], DetailPoints)], Len(is))

\* src/Clase_Integrales.py: each f(x) is called once and tested for
\* None / NaN / inf; each test sits in its own try block
CheckedCI(pts) == Tup([k \in 1..Len(pts) |-> Step(pts[k], "all", TRUE)])

\* Int.py: "np.isnan(f(x)) or np.isinf(f(x))" calls f twice; the whole body
\* of the function is one try block
CheckedInt(pts) ==
    Flatten([k \in 1..Len(pts) |-> <<Step(pts[k], "nan", TRUE), Step(pts[k], "inf", TRUE)>>],
            Len(pts))

\* steps 1, 2 and the pass that recomputes the grid values (valores)
PlanA_CI(lo, hi) ==
    LET grid == linspace(lo, hi, GridPoints)
    IN  <<Step(lo, "skip", TRUE), Step(hi, "all2", TRUE)>>
        \o CheckedCI(grid)
        \o [k \in 1..GridPoints |-> Step(grid[k], "skip", FALSE)]

PlanA_Int(lo, hi) ==
    LET grid == linspace(lo, hi, GridPoints)
    IN  <<Step(lo, "nan", TRUE), Step(hi, "nan", TRUE),
          Step(lo, "inf", TRUE), Step(hi, "inf", TRUE)>>
        \o CheckedInt(grid)
        \o [k \in 1..GridPoints |-> Step(grid[k], "skip", TRUE)]

\* step 3 (refinement of the suspicious gaps) and step 4 (special points)
PlanB_CI(lo, hi, idx, ord) ==
    CheckedCI(DetailSeq(linspace(lo, hi, GridPoints), idx) \o SpecialSeq(lo, hi, ord))

PlanB_Int(lo, hi, idx, ord) ==
    CheckedInt(DetailSeq(linspace(lo, hi, GridPoints), idx) \o SpecialSeq(lo, hi, ord))

\* the points of a plan
Xs(plan) == Tup([k \in 1..Len(plan) |-> plan[k].x])

\* the end of verificar_dominio: rB is what steps 3b and 4 did
VerificarFin(planA, planB, rB) ==
    [st |-> IF rB.st = "go" THEN "True" ELSE rB.st,
     evals |-> Xs(planA) \o SubSeq(Xs(planB), 1, rB.calls - Len(planA))]

VerificarPlanB(g, planA, planB) ==
    VerificarFin(planA, planB, RunFrom(g, planB, Len(planA) + 1))

\* after steps 1, 2 and the recomputing pass (rA), with the values of that
\* pass: np.diff over a list holding None raises TypeError, which only
\* Int.py catches (its whole body is one try block)
VerificarDiferencias(im, g, lo, hi, ord, planA, rA, valores) ==
    IF rA.st # "go" THEN [st |-> rA.st, evals |-> SubSeq(Xs(planA), 1, rA.calls)]
    ELSE IF \E k \in 1..Len(valores) : valores[k].t = "none"
         THEN [st |-> IF im = "CI" THEN "raise" ELSE "False", evals |-> Xs(planA)]
    ELSE VerificarPlanB(g, planA,
            IF im = "CI" THEN PlanB_CI(lo, hi, indices_sospechosos(valores), ord)
            ELSE PlanB_Int(lo, hi, indices_sospechosos(valores), ord))

\* valores = [f(x) for x in puntos_uniformes]: the results of the last
\* GridPoints calls of plan A
Recomputed(g, grid, nA) ==
    Tup([k \in 1..GridPoints |-> Outcome(g, grid[k], nA - GridPoints + k)])

VerificarPlanA(im, g, lo, hi, ord, planA) ==
    VerificarDiferencias(im, g, lo, hi, ord, planA, RunFrom(g, planA, 1),
                         Recomputed(g, linspace(lo, hi, GridPoints), Len(planA)))

\* verificar_dominio(f, a, b) of implementation im: [st, evals] with st
\* "True", "False" or "raise" and evals the points f was called at, in order
RunVerificar(im, g, lo, hi, ord) ==
    VerificarPlanA(im, g, lo, hi, ord,
                   IF im = "CI" THEN PlanA_CI(lo, hi) ELSE PlanA_Int(lo, hi))

verificar_dominio_CI(g, lo, hi, ord) == RunVerificar("CI", g, lo, hi, ord)

verificar_dominio_Int(g, lo, hi, ord) == RunVerificar("Int", g, lo, hi, ord)

verificar_dominio(im, g, lo, hi, ord) ==
    IF im = "CI" THEN verificar_dominio_CI(g, lo, hi, ord)
    ELSE verificar_dominio_Int(g, lo, hi, ord)

-----------------------------------------------------------------------------
(* Riemann sums *)

METODOS == {"left", "right", "midpoint", "trapezoid"}

\* float arithmetic on results: NaN and the infinities propagate
OAdd(p, q) ==
    CASE p.t = "val" /\ q.t = "val" -> Val(RAdd(p.v, q.v))
      [] p.t = "nan" \/ q.t = "nan" -> Und("nan")
      [] p.t = "val" -> q
      [] q.t = "val" -> p
      [] p.t = q.t -> p
      [] OTHER -> Und("nan")      \* inf + (-inf)

\* multiplication by a positive finite factor
OScale(p, r) == IF p.t = "val" THEN Val(RMul(p.v, r)) ELSE p

Returns(v, xs) == [st |-> "return", val |-> v, exc |-> "", evals |-> xs]
Raises(e, xs) == [st |-> "raise", val |-> Und("none"), exc |-> e, evals |-> xs]

\* (mutation: the right rule samples the left edge)
SamplePoints_RightIsLeft(lo, hi, nn, m, i) ==
    LET delta_x == RDiv(RSub(hi, lo), R(nn))
        x_left  == RAdd(lo, RMul(R(i), delta_x))
        x_right == RAdd(lo, RMul(R(i + 1), delta_x))
    IN  CASE m = "left"      -> <<x_left>>
          [] m = "right"     -> <<x_left>>
          [] m = "midpoint"  -> <<RAdd(lo, RMul(<<2 * i + 1, 2>>, delta_x))>>
          [] m = "trapezoid" -> <<x_left, x_right>>
          [] OTHER -> <<>>

\* (mutation: the midpoint rule calls f at both edges as well)
SamplePoints_MidpointTwo(lo, hi, nn, m, i) ==
    LET delta_x == RDiv(RSub(hi, lo), R(nn))
        x_left  == RAdd(lo, RMul(R(i), delta_x))
        x_right == RAdd(lo, RMul(R(i + 1), delta_x))
    IN  CASE m = "left"      -> <<x_left>>
          [] m = "right"     -> <<x_right>>
          [] m = "midpoint"  -> <<RAdd(lo, RMul(<<2 * i + 1, 2>>, delta_x)), x_right>>
          [] m = "trapezoid" -> <<x_left, x_right>>
          [] OTHER -> <<>>

\* the points f is called at in subinterval i (0-based), in call order
SamplePoints(lo, hi, nn, m, i) ==
    LET delta_x == RDiv(RSub(hi, lo), R(nn))
        x_left  == RAdd(lo, RMul(R(i), delta_x))
        x_right == RAdd(lo, RMul(R(i + 1), delta_x))
    IN  CASE m = "left"      -> <<x_left>>
          [] m = "right"     -> <<x_right>>
          [] m = "midpoint"  -> <<RAdd(lo, RMul(<<2 * i + 1, 2>>, delta_x))>>
          [] m = "trapezoid" -> <<x_left, x_right>>
          [] OTHER -> <<>>

RECURSIVE RiemannLoop(_, _, _, _, _, _, _, _)
\* the loop "for i in range(n)" from index i on; suma is the sum so far, xs
\* the points f has been called at so far.  unknown is what the loop body
\* does with a method that is none of the four: "raise" (riemann_sum) or
\* "pass" (RiemannIntegrator.integrar, whose if/elif chain has no else)
RiemannLoop(g, lo, hi, nn, m, i, acc, unknown) ==
    IF i >= nn THEN Returns(acc.suma, acc.xs)
    ELSE IF m \notin METODOS
         THEN IF unknown = "raise" THEN Raises("ValueError", acc.xs)
              ELSE RiemannLoop(g, lo, hi, nn, m, i + 1, acc, unknown)
    ELSE
    LET delta_x == RDiv(RSub(hi, lo), R(nn))
        pts == SamplePoints(lo, hi, nn, m, i)
        k   == Len(acc.xs)
        o1  == Outcome(g, pts[1], k + 1)
        o2  == Outcome(g, pts[2], k + 2)
    IN  IF m = "trapezoid"
        THEN \* (f(x_left) + f(x_right)) / 2 * delta_x
             IF o1.t = "raise" THEN Raises("f", acc.xs \o <<pts[1]>>)
             ELSE IF o2.t = "raise" THEN Raises("f", acc.xs \o pts)
             ELSE IF o1.t = "none" \/ o2.t = "none" THEN Raises("TypeError", acc.xs \o pts)
             ELSE RiemannLoop(g, lo, hi, nn, m, i + 1,
                     [suma |-> OAdd(acc.suma, OScale(OScale(OAdd(o1, o2), <<1, 2>>), delta_x)),
                      xs |-> acc.xs \o pts], unknown)
        ELSE \* f(x) * delta_x
             IF o1.t = "raise" THEN Raises("f", acc.xs \o pts)
             ELSE IF o1.t = "none" THEN Raises("TypeError", acc.xs \o pts)
             ELSE RiemannLoop(g, lo, hi, nn, m, i + 1,
                     [suma |-> OAdd(acc.suma, OScale(o1, delta_x)), xs |-> acc.xs \o pts],
                     unknown)

Acc0 == [suma |-> Val(Zero), xs |-> <<>>]

\* (mutation: the test n <= 0 is left out)
riemann_sum_NoNCheck(g, lo, hi, nn, m) ==
    IF nn = 0 THEN Raises("ZeroDivisionError", <<>>)
    ELSE RiemannLoop(g, lo, hi, nn, m, 0, Acc0, "raise")

\* src/Clase_Integrales.py riemann_sum(f, a, b, n, method)
riemann_sum(g, lo, hi, nn, m) ==
    IF nn <= 0 THEN Raises("ValueError", <<>>)
    ELSE RiemannLoop(g, lo, hi, nn, m, 0, Acc0, "raise")

\* (mutation: the constructor accepts any method)
RiemannIntegrator_init_NoCheck(m) == TRUE

\* Int.py RiemannIntegrator.__init__: TRUE when the object is constructed
RiemannIntegrator_init(m) == m \in METODOS

\* (mutation: the loop starts at the second subinterval)
RiemannIntegrator_integrar_DesdeUno(g, lo, hi, nn, m) ==
    IF nn <= 0 THEN Raises("ValueError", <<>>)
    ELSE RiemannLoop(g, lo, hi, nn, m, 1, Acc0, "pass")

\* Int.py RiemannIntegrator.integrar(a, b, n) of a constructed object
RiemannIntegrator_integrar(g, lo, hi, nn, m) ==
    IF nn <= 0 THEN Raises("ValueError", <<>>)
    ELSE RiemannLoop(g, lo, hi, nn, m, 0, Acc0, "pass")

\* RiemannIntegrator(funcion, metodo).integrar(a, b, n)
RiemannIntegrator(g, lo, hi, nn, m) ==
    IF ~RiemannIntegrator_init(m) THEN Raises("ValueError", <<>>)
    ELSE RiemannIntegrator_integrar(g, lo, hi, nn, m)

Riemann(im, g, lo, hi, nn, m) ==
    IF im = "CI" THEN riemann_sum(g, lo, hi, nn, m) ELSE RiemannIntegrator(g, lo, hi, nn, m)

-----------------------------------------------------------------------------
(* Inputs of the calls *)

Impls == {"CI", "Int"}
Ordenes == {"asc", "desc"}
UndKinds == {"nan", "inf", "ninf", "none", "raise"}

\* the intervals [a, b] of the calls, a < b: integer and non-integer bounds,
\* with and without 0, with and without the special constants
\* an interval whose lower bound is 1 - tolerancia: the lower probe of the
\* special point 1 would land on it.  Its grid step is 6 * tolerancia
BelowOne ==
    <<RSub(R(1), tolerancia),
      RAdd(RSub(R(1), tolerancia), RMul(R(6 * (GridPoints - 1)), tolerancia))>>

Intervals == {<<R(-1), R(1)>>, <<R(0), R(1)>>, <<R(0), R(2)>>,
              <<(<<-1, 2>>), (<<3, 2>>)>>, <<R(2), (<<7, 2>>)>>, BelowOne}

NoF == [base |-> "none", at |-> NoPt, und |-> "val", wrap |-> "raw", failFrom |-> 0,
        ns |-> 0]

\* nothing typed yet: no bounds, and the values the prompts have not given
NoEntrada == [lims |-> <<>>, f |-> NoF, a |-> Zero, b |-> Zero,
              integrador |-> "none", n |-> 0, method |-> "none", metodo_num |-> <<>>]
\* ns is the state of the namespace dictionary of a FuncionExpresion object:
\* how often its evaluations have rebound a name so far
Callable(base, at, und, wrap, failFrom) ==
    [base |-> base, at |-> at, und |-> und, wrap |-> wrap, failFrom |-> failFrom,
     ns |-> 0]

\* where a callable may be undefined: every point verificar_dominio can
\* sample on [lo, hi], and points it never samples
CandPts(lo, hi) ==
    LET grid == linspace(lo, hi, GridPoints)
        det  == UNION {{linspace(grid[i], grid[i + 1], DetailPoints)[k] : k \in 1..DetailPoints}
                       : i \in 1..(GridPoints - 1)}
        sp   == puntos_especiales(lo, hi)
        half == <<1, 2 * TolInv>>
    IN  det \cup sp
        \cup {RSub(p, tolerancia) : p \in sp} \cup {RAdd(p, tolerancia) : p \in sp}
        \cup {RAdd(p, half) : p \in sp}
        \cup {RSub(lo, tolerancia), RAdd(hi, tolerancia)}

\* the callables handed to verificar_dominio: defined everywhere, undefined
\* at one point, or breaking from some call on
DomCallables(lo, hi) ==
    {Callable(bs, NoPt, "val", "raw", 0) : bs \in {"one", "sq"}}
    \cup {Callable("sq", at, und, "raw", 0) : at \in CandPts(lo, hi), und \in UndKinds}
    \cup {Callable("step", at, und, "raw", 0) :
             at \in CandPts(lo, hi), und \in {"val", "nan", "raise"}}
    \cup {Callable("sq", NoPt, und, "raw", k) :
             und \in {"nan", "none", "raise"}, k \in 1..MaxFailFrom}

Deterministic(g) == g.failFrom = 0

-----------------------------------------------------------------------------
(* The calls of verificar_dominio *)

NoRet == [op |-> "none", st |-> "none"]

\* the running sum where no animation is running
SinAnimacion == Val(Zero)

\* before the call: the implementation, the interval and the iteration order
\* of the set of special points are fixed
InitDom ==
    /\ pc = "idle"
    /\ impl \in Impls
    /\ \E iv \in Intervals : a = iv[1] /\ b = iv[2]
    /\ orden \in Ordenes
    /\ f = NoF /\ n = 0 /\ method = "none" /\ ret = NoRet /\ evals = <<>>
    /\ integrador = "none" /\ log = <<>> /\ entrada = NoEntrada
    /\ suma_actual = SinAnimacion /\ poligonos = 0 /\ frame = -1

\* verificar_dominio(f, a, b) is called and returns (or raises)
Call_verificar_dominio ==
    /\ pc = "idle"
    /\ \E g \in DomCallables(a, b) :
         \E r \in {verificar_dominio(impl, g, a, b, orden)} :
            /\ f' = g
            /\ ret' = [op |-> "verificar_dominio", st |-> r.st]
            /\ evals' = r.evals
    /\ pc' = "returned"
    /\ UNCHANGED <<impl, a, b, orden, n, method, integrador, log, entrada, suma_actual, poligonos, frame>>

\* the caller takes the result; the next call starts from scratch
Return ==
    /\ pc = "returned"
    /\ pc' = "idle"
    /\ f' = NoF /\ ret' = NoRet /\ evals' = <<>>
    /\ UNCHANGED <<impl, a, b, orden, n, method, integrador, log, entrada, suma_actual, poligonos, frame>>

NextDom == Call_verificar_dominio \/ Return
SpecDom == InitDom /\ [][NextDom]_vars

-----------------------------------------------------------------------------
(* The calls of the Riemann approximators and of the evaluators *)

RieIntervals == {<<R(-1), R(1)>>, <<R(0), R(1)>>, <<R(0), R(2)>>}
Methods == METODOS \cup {"simpson"}

\* every point a Riemann sum over [lo, hi] with n <= MaxN can sample
RiePts(lo, hi) ==
    UNION {{RAdd(lo, RMul(<<k, 2 * nn>>, RSub(hi, lo))) : k \in 0..(2 * nn)} : nn \in 1..MaxN}

\* how the callers of each implementation wrap an expression
Wraps(im) == IF im = "CI" THEN {"raw", "evaluar_expresion"} ELSE {"raw", "FuncionExpresion"}

RieCallables(im, lo, hi) ==
    {Callable(bs, NoPt, "val", w, 0) : bs \in {"one", "x", "sq"}, w \in Wraps(im)}
    \cup {Callable("sq", at, und, w, 0) :
             at \in RiePts(lo, hi), und \in UndKinds, w \in Wraps(im)}

InitRie ==
    /\ pc = "idle"
    /\ impl \in Impls
    /\ \E iv \in RieIntervals : a = iv[1] /\ b = iv[2]
    /\ n \in -1..MaxN
    /\ method \in Methods
    /\ orden = "asc" /\ f = NoF /\ ret = NoRet /\ evals = <<>>
    /\ integrador = "none" /\ log = <<>> /\ entrada = NoEntrada
    /\ suma_actual = SinAnimacion /\ poligonos = 0 /\ frame = -1

\* riemann_sum(f, a, b, n, method), or RiemannIntegrator(f, method).integrar(a, b, n)
Call_riemann ==
    /\ pc = "idle"
    /\ \E g \in RieCallables(impl, a, b) :
         \E r \in {Riemann(impl, g, a, b, n, method)} :
            /\ f' = g
            /\ ret' = [op |-> "riemann", st |-> r.st, val |-> r.val, exc |-> r.exc]
            /\ evals' = r.evals
    /\ pc' = "returned"
    /\ UNCHANGED <<impl, a, b, orden, n, method, integrador, log, entrada, suma_actual, poligonos, frame>>

\* one evaluation of a user expression at a point: FuncionExpresion.evaluar(x)
\* in Int.py, evaluar_expresion(expresion, x) in Clase_Integrales.py
Call_evaluar ==
    /\ pc = "idle"
    /\ \E g \in {h \in RieCallables(impl, a, b) : h.wrap # "raw"}, x \in RiePts(a, b) :
         \E o \in {Outcome(g, x, 1)} :
            /\ f' = g
            /\ ret' = [op |-> "evaluar", st |-> IF o.t = "raise" THEN "raise" ELSE "return",
                       val |-> o, exc |-> IF o.t = "raise" THEN "AttributeError" ELSE ""]
            /\ evals' = <<x>>
    /\ pc' = "returned"
    /\ UNCHANGED <<impl, a, b, orden, n, method, integrador, log, entrada, suma_actual, poligonos, frame>>


-----------------------------------------------------------------------------
(* The orchestrators: CalculadoraIntegrales.ejecutar (Int.py) and           *)
(* interfaz_usuario (Clase_Integrales.py).  One request runs from the        *)
(* prompt for the expression to the question whether to compute another     *)
(* integral.                                                                *)

\* interfaz_usuario: the n used when the input is not a positive integer
DefaultN_CI == 10

\* int(input(...)): an integer, or ValueError
IntInput(v) == [ok |-> TRUE, v |-> v]
BadInput == [ok |-> FALSE, v |-> 0]

\* metodos = ['left', 'right', 'midpoint', 'trapezoid']
metodos == <<"left", "right", "midpoint", "trapezoid">>

\* Int.py _seleccionar_metodo_riemann: metodos[opcion - 1] with Python's list
\* indexing (indices -4..-1 count from the end), IndexError -> 'midpoint'
seleccionar_metodo_riemann(inp) ==
    IF ~inp.ok THEN "midpoint"
    ELSE LET i == inp.v - 1
         IN  IF i \in 0..3 THEN metodos[i + 1]
             ELSE IF i \in -4..-1 THEN metodos[i + 5]
             ELSE "midpoint"

\* (mutation: the integer typed is returned as it is)
obtener_subintervalos_SinMax(inp) ==
    IF ~inp.ok THEN DefaultN_Int ELSE inp.v

\* Int.py _obtener_subintervalos
obtener_subintervalos(inp) ==
    IF ~inp.ok THEN DefaultN_Int ELSE IF inp.v >= 1 THEN inp.v ELSE 1

\* interfaz_usuario: the method read from the menu
metodo_CI(inp) ==
    IF ~inp.ok \/ inp.v < 1 \/ inp.v > 4 THEN "midpoint" ELSE metodos[inp.v]

\* interfaz_usuario: the number of subintervals read from the prompt
n_CI(inp) == IF ~inp.ok \/ inp.v <= 0 THEN DefaultN_CI ELSE inp.v

\* opcion 1 / anything else but 2 -> exact resolution; 2 -> Riemann sum
seleccionar_metodo(inp) ==
    IF inp.ok /\ inp.v = 2 THEN "RiemannIntegrator" ELSE "ExactIntegrator"

\* the integral of the expression over [lo, hi]
Integral(g, lo, hi) ==
    CASE g.base = "one"  -> RSub(hi, lo)
      [] g.base = "x"    -> RMul(<<1, 2>>, RSub(RMul(hi, hi), RMul(lo, lo)))
      [] g.base = "sq"   -> RMul(<<1, 3>>, RSub(RMul(hi, RMul(hi, hi)), RMul(lo, RMul(lo, lo))))
      [] g.base = "step" -> IF g.at = NoPt \/ RLe(hi, g.at) THEN Zero
                            ELSE IF RLe(g.at, lo) THEN RMul(R(StepHeight), RSub(hi, lo))
                            ELSE RMul(R(StepHeight), RSub(hi, g.at))

\* integrate.quad(f, a, b): the outcomes the quadrature can have.  Its rule
\* evaluates f at the centre of [a, b] first: an exception (or a None) there
\* leaves quad as an exception, a NaN or an infinity there spoils the
\* result.  Otherwise it returns the integral; when f is undefined at
\* another point of [a, b] it may also hit that point
quad(g, lo, hi) ==
    LET hit == g.at # NoPt /\ g.und # "val" /\ RLe(lo, g.at) /\ RLe(g.at, hi)
        o   == Outcome(g, g.at, 0)
        c   == Outcome(g, RMul(<<1, 2>>, RAdd(lo, hi)), 1)
    IN  IF c.t \in {"raise", "none"} THEN {Und("raise")}
        ELSE IF c.t # "val" THEN {Und("nan")}
        ELSE {Val(Integral(g, lo, hi))}
             \cup (IF hit THEN {IF o.t \in {"raise", "none"} THEN Und("raise") ELSE Und("nan")}
                   ELSE {})

\* ExactIntegrator.integrar without its try/except
ExactIntegrator_integrar_NoTry(q) == q

\* Int.py ExactIntegrator.integrar: any Exception becomes NaN
ExactIntegrator_integrar(q) == IF q.t = "raise" THEN Und("nan") ELSE q

\* resolver_integral_exacta: any Exception becomes None
resolver_integral_exacta(q) == IF q.t = "raise" THEN Und("none") ELSE q

\* the exact integration of either implementation on the outcome q of quad
Exacta(im, q) ==
    IF im = "Int" THEN ExactIntegrator_integrar(q) ELSE resolver_integral_exacta(q)

\* ExactIntegrator(f).integrar(a, b), or resolver_integral_exacta(f, a, b, ...)
Call_exacta ==
    /\ pc = "idle"
    /\ \E g \in RieCallables(impl, a, b) :
         \E q \in quad(g, a, b) :
            \E r \in {Exacta(impl, q)} :
               /\ f' = g
               /\ ret' = [op |-> "exacta", st |-> IF r.t = "raise" THEN "raise" ELSE "return",
                          val |-> r, exc |-> q.t]
    /\ evals' = <<>>
    /\ pc' = "returned"
    /\ UNCHANGED <<impl, a, b, orden, n, method, integrador, log, entrada, suma_actual, poligonos, frame>>

\* the expressions a session may integrate more than once: 1, x, x**2 and
\* one that rebinds a name of its namespace
RepCallables(im) ==
    {Callable(bs, NoPt, "val", w, 0) : bs \in {"one", "x", "sq"}, w \in Wraps(im)}
    \cup {Callable("walrus", NoPt, "val", w, 0) : w \in Wraps(im) \ {"raw"}}

\* the same call made twice on one function object, with the evaluations
\* of entre between the two
Call_riemann_dos ==
    /\ pc = "idle"
    /\ \E g \in RepCallables(impl), entre \in {<<>>, <<a>>, <<a, b>>} :
         \E r1 \in {Riemann(impl, g, a, b, n, method)} :
            \E r2 \in {Riemann(impl, Despues(g, r1.evals \o entre), a, b, n, method)} :
               /\ f' = g
               /\ ret' = [op |-> "riemann_dos", st |-> r2.st, val |-> r2.val, exc |-> r2.exc,
                          st1 |-> r1.st, val1 |-> r1.val]
               /\ evals' = r1.evals \o entre \o r2.evals
    /\ pc' = "returned"
    /\ UNCHANGED <<impl, a, b, orden, n, method, integrador, log, entrada, suma_actual, poligonos, frame>>

\* the points f is called at to draw the polygon of subinterval i:
\* get_polygon_coordinates (Clase_Integrales.py), the first if/elif chain of
\* animate (Int.py).  The midpoint is (x_left + x_right) / 2
PolygonPoints(lo, hi, nn, m, i) ==
    LET delta_x == RDiv(RSub(hi, lo), R(nn))
        x_left  == RAdd(lo, RMul(R(i), delta_x))
        x_right == RAdd(lo, RMul(R(i + 1), delta_x))
    IN  CASE m = "left"      -> <<x_left>>
          [] m = "right"     -> <<x_right>>
          [] m = "midpoint"  -> <<RDiv(RAdd(x_left, x_right), R(2))>>
          [] m = "trapezoid" -> <<x_left, x_right>>

\* the points f is called at to update suma_actual in frame i:
\* Clase_Integrales.py writes a + (i + 0.5) * delta_x for the midpoint,
\* Int.py (x_left + x_right) / 2
SumPoints(im, lo, hi, nn, m, i) ==
    IF im = "CI" THEN SamplePoints(lo, hi, nn, m, i) ELSE PolygonPoints(lo, hi, nn, m, i)

\* what frame i adds to suma_actual
Increment(im, g, lo, hi, nn, m, i) ==
    LET delta_x == RDiv(RSub(hi, lo), R(nn))
        pts == SumPoints(im, lo, hi, nn, m, i)
    IN  IF m = "trapezoid"
        THEN OScale(OScale(OAdd(Outcome(g, pts[1], 0), Outcome(g, pts[2], 0)), <<1, 2>>), delta_x)
        ELSE OScale(Outcome(g, pts[1], 0), delta_x)

\* (mutation: frame 0 does not reset the running sum nor the polygon list)
animate_SinReinicio(im, g, lo, hi, nn, m, i, suma, pols) ==
    IF i < nn
    THEN [suma_actual |-> OAdd(suma, Increment(im, g, lo, hi, nn, m, i)),
          poligonos   |-> pols + 1,
          evals       |-> PolygonPoints(lo, hi, nn, m, i) \o SumPoints(im, lo, hi, nn, m, i)]
    ELSE [suma_actual |-> suma, poligonos |-> pols, evals |-> <<>>]

\* animate(i) on the running sum suma and a list of pols polygons: frame 0
\* clears the list and the sum; a frame i < n draws one polygon and adds one
\* term; frame n only rewrites the texts
animate(im, g, lo, hi, nn, m, i, suma, pols) ==
    LET s0 == IF i = 0 THEN Val(Zero) ELSE suma
        p0 == IF i = 0 THEN 0 ELSE pols
    IN  IF i < nn
        THEN [suma_actual |-> OAdd(s0, Increment(im, g, lo, hi, nn, m, i)),
              poligonos   |-> p0 + 1,
              evals       |-> PolygonPoints(lo, hi, nn, m, i) \o SumPoints(im, lo, hi, nn, m, i)]
        ELSE [suma_actual |-> s0, poligonos |-> p0, evals |-> <<>>]

\* the functions that are animated: defined everywhere, continuous or with
\* a jump inside the interval, and one that is undefined at the lower bound
AniCallables(im, lo, hi) ==
    {Callable(bs, NoPt, "val", w, 0) : bs \in {"one", "x", "sq"}, w \in Wraps(im)}
    \cup {Callable("step", RDiv(RAdd(lo, hi), R(2)), "val", "raw", 0),
          Callable("sq", lo, "nan", "raw", 0)}

\* graficar_riemann_dinamico(f, a, b, n, method) /
\* RiemannIntegrator(f, method).graficar(a, b, n) up to plt.show(): the
\* domain validation, velocidad = 5 / (n + 1), the title, poligonos = [],
\* suma_actual = 0, delta_x = (b - a) / n
graficar(im, g, lo, hi, nn, m, ord) ==
    IF im = "Int" /\ ~RiemannIntegrator_init(m) THEN "ValueError"
    ELSE IF verificar_dominio(im, g, lo, hi, ord).st # "True" THEN "invalid"
    ELSE IF nn = -1 THEN "ZeroDivisionError"
    ELSE IF im = "CI" /\ m \notin METODOS THEN "KeyError"
    ELSE IF nn = 0 THEN "ZeroDivisionError"
    ELSE "show"

Call_graficar ==
    /\ pc = "idle"
    /\ \E g \in AniCallables(impl, a, b) :
         \E r \in {graficar(impl, g, a, b, n, method, orden)} :
            /\ f' = g
            /\ pc' = IF r = "show" THEN "animando" ELSE "returned"
            /\ ret' = [op |-> "graficar",
                       st |-> IF r \in {"show", "invalid"} THEN "return" ELSE "raise",
                       val |-> Und("none"),
                       exc |-> IF r \in {"show", "invalid"} THEN "" ELSE r]
    /\ suma_actual' = Val(Zero) /\ poligonos' = 0 /\ frame' = -1
    /\ evals' = <<>>
    /\ UNCHANGED <<impl, a, b, orden, n, method, integrador, log, entrada>>

\* FuncAnimation(fig, animate, frames=n+1) calls animate with the frames 0,
\* 1, ..., n and starts over at 0: the next frame is 0 or the one after the
\* last
Animate ==
    /\ pc = "animando"
    /\ \E i \in {0, frame + 1} :
         /\ i <= n
         /\ \E r \in {animate(impl, f, a, b, n, method, i, suma_actual, poligonos)} :
              /\ suma_actual' = r.suma_actual
              /\ poligonos' = r.poligonos
              /\ evals' = r.evals
         /\ frame' = i
    /\ UNCHANGED <<pc, impl, f, a, b, orden, n, method, ret, integrador, log, entrada>>

\* the window is closed: plt.show() returns, graficar_riemann_dinamico
\* returns riemann_sum(f, a, b, n, method), graficar returns None, and the
\* variables of the animation are gone
Cerrar ==
    /\ pc = "animando"
    /\ pc' = "returned"
    /\ \E r \in {riemann_sum(f, a, b, n, method)} :
         IF impl = "CI"
         THEN /\ ret' = [op |-> "graficar", st |-> r.st, val |-> r.val, exc |-> r.exc]
              /\ evals' = r.evals
         ELSE /\ ret' = [op |-> "graficar", st |-> "return", val |-> Und("none"), exc |-> ""]
              /\ evals' = <<>>
    /\ suma_actual' = SinAnimacion /\ poligonos' = 0 /\ frame' = -1
    /\ UNCHANGED <<impl, f, a, b, orden, n, method, integrador, log, entrada>>

NextRie ==
    \/ Call_riemann \/ Call_evaluar \/ Call_exacta \/ Call_riemann_dos
    \/ Call_graficar \/ Animate \/ Cerrar \/ Return
SpecRie == InitRie /\ [][NextRie]_vars

\* abs(exacto - resultado) on floats
AbsDiff(p, q) ==
    CASE p.t = "val" /\ q.t = "val" -> Val(RAbs(RSub(p.v, q.v)))
      [] p.t = "nan" \/ q.t = "nan" -> Und("nan")
      [] p.t = q.t -> Und("nan")          \* inf - inf
      [] OTHER -> Und("inf")

\* error / abs(exacto) on Python floats: a zero divisor raises
\* ZeroDivisionError
Divide(e, x) ==
    CASE x.t = "val" /\ x.v = Zero -> Und("raise")
      [] e.t = "val" /\ x.t = "val" -> Val(RDiv(e.v, RAbs(x.v)))
      [] e.t = "nan" \/ x.t = "nan" -> Und("nan")
      [] e.t = "val" -> Val(Zero)         \* finite / inf
      [] x.t = "val" -> Und("inf")        \* inf / finite
      [] OTHER -> Und("nan")              \* inf / inf

\* one entry of the log: a call (with what it returned) or a message
Ev(ev, st, lo, hi) == [ev |-> ev, st |-> st, lo |-> lo, hi |-> hi]

NoReq == [op |-> "request", resultado |-> Und("none"), exacto |-> Und("none"),
          error |-> Und("none"), rel |-> Und("none"), compared |-> FALSE]

\* the comparison of the approximation with the exact value
\* (Clase_Integrales.py 987-991, Int.py 424-428): the result record, the
\* entries the division adds to the log, and whether ZeroDivisionError is
\* raised
Compare(resultado, exacto, lo, hi) ==
    LET error == AbsDiff(exacto, resultado)
        rel   == Divide(error, exacto)
    IN  [ret |-> [op |-> "request", resultado |-> resultado, exacto |-> exacto,
                  error |-> error, rel |-> IF rel.t = "raise" THEN Und("none") ELSE rel,
                  compared |-> TRUE],
         log |-> <<Ev("division", IF rel.t = "raise" THEN "ZeroDivisionError" ELSE "ok",
                      lo, hi)>>,
         raised |-> rel.t = "raise"]

\* (mutation: the request goes on whatever the verdict)
Gate_AlwaysOpen(im, st) == "metodo"

\* what follows the verdict of the domain validation: the method menu, or
\* the end of the request (Int.py returns; interfaz_usuario asks whether to
\* try again)
Gate(im, st) ==
    IF st = "True" THEN "metodo" ELSE IF im = "Int" THEN "done" ELSE "ask"

\* what the user may type as f(x): x, x**2, and expressions undefined at
\* one point (the test point 1.0, the integer 0, a point no check samples)
OrqPts == {R(0), R(1), <<1, 7>>}
OrqExprs ==
    {Callable(bs, NoPt, "val", "raw", 0) : bs \in {"x", "sq"}}
    \cup {Callable("sq", at, und, "raw", 0) : at \in OrqPts, und \in {"raise", "inf"}}
    \cup {Callable("x", R(0), "none", "raw", 0)}

\* float(input(...)) twice: two numbers, or ValueError
LimitInputs ==
    {[ok |-> TRUE, a |-> iv[1], b |-> iv[2]] :
        iv \in {<<R(-1), R(1)>>, <<R(0), R(2)>>, <<R(40), R(41)>>, <<R(1), R(1)>>, <<R(2), R(0)>>}}
    \cup {[ok |-> FALSE, a |-> Zero, b |-> Zero]}

OpcionInputs == {IntInput(v) : v \in 1..3} \cup {BadInput}
MetodoInputs == {IntInput(v) : v \in -4..5} \cup {BadInput}
NInputs == {IntInput(v) : v \in -1..MaxN} \cup {BadInput}

\* _definir_funcion / the head of interfaz_usuario: the function of the
\* request, after the test evaluation at 1.0 and the fallback to x**2
definir_funcion(im, e) ==
    LET g    == [e EXCEPT !.wrap = IF im = "Int" THEN "FuncionExpresion"
                                   ELSE "evaluar_expresion"]
        test == Outcome(g, R(1), 1)
    IN  IF im = "Int"
        THEN \* np.isnan(test_val) -> ValueError; np.isnan(None) -> TypeError
             IF test.t \in {"nan", "none", "raise"}
             THEN Callable("sq", NoPt, "val", "FuncionExpresion", 0) ELSE g
        ELSE \* test_value is None, or the call raised
             IF test.t \in {"none", "raise"}
             THEN Callable("sq", NoPt, "val", "raw", 0) ELSE g

\* _definir_limites / interfaz_usuario 901-910
definir_limites(inp) ==
    IF ~inp.ok \/ ~RLt(inp.a, inp.b) THEN <<R(0), R(1)>> ELSE <<inp.a, inp.b>>

\* graficar / graficar_riemann_dinamico validate the domain again before
\* they draw; an invalid verdict prints the error with the interval
graficar_log(v, lo, hi) ==
    <<Ev("verificar_dominio", v, lo, hi)>>
    \o (IF v = "False" THEN <<Ev("domain_error", "", lo, hi)>> ELSE <<>>)

\* (mutation: the comparison is made whatever the exact value)
ExactoDefinido_Siempre(im, x) == TRUE

\* the guard of the comparison: "if not np.isnan(exacto)" in Int.py,
\* "if resultado_exacto is not None" in interfaz_usuario
ExactoDefinido(im, x) == IF im = "Int" THEN x.t # "nan" ELSE x.t # "none"

\* Int.py _mostrar_resultados.  v is the verdict of the validation graficar
\* runs, r what RiemannIntegrator.integrar does, q1 and q2 what the calls of
\* quad do
mostrar_resultados_Int(integ, v, r, q1, q2, lo, hi) ==
    IF integ = "ExactIntegrator"
    THEN \* integrar, then graficar (which integrates once more)
         [pc  |-> "ask",
          log |-> <<Ev("quad", q1.t, lo, hi)>> \o graficar_log(v, lo, hi)
                  \o (IF v = "True" THEN <<Ev("quad", q2.t, lo, hi)>> ELSE <<>>),
          ret |-> [NoReq EXCEPT !.resultado = ExactIntegrator_integrar(q1)]]
    ELSE IF r.st = "raise"
    THEN [pc |-> "crashed", log |-> <<Ev("riemann", r.exc, lo, hi)>>, ret |-> NoReq]
    ELSE \* integrar, graficar, then the comparison inside try / bare except
         [pc  |-> "ask",
          log |-> <<Ev("riemann", "return", lo, hi)>> \o graficar_log(v, lo, hi)
                  \o <<Ev("quad", q1.t, lo, hi)>>
                  \o (IF ExactoDefinido("Int", ExactIntegrator_integrar(q1))
                      THEN Compare(r.val, ExactIntegrator_integrar(q1), lo, hi).log
                      ELSE <<>>),
          ret |-> IF ExactoDefinido("Int", ExactIntegrator_integrar(q1))
                  THEN Compare(r.val, ExactIntegrator_integrar(q1), lo, hi).ret
                  ELSE [NoReq EXCEPT !.resultado = r.val,
                                     !.exacto = ExactIntegrator_integrar(q1)]]

\* interfaz_usuario 937-991.  v is the verdict of the validation
\* graficar_riemann_dinamico runs, r what riemann_sum does, q1 what quad does
mostrar_resultados_CI(integ, v, r, q1, lo, hi) ==
    IF integ = "ExactIntegrator"
    THEN [pc  |-> "ask",
          log |-> <<Ev("quad", q1.t, lo, hi)>>,
          ret |-> [NoReq EXCEPT !.resultado = resolver_integral_exacta(q1)]]
    ELSE IF v = "raise"
    THEN [pc |-> "crashed", log |-> <<Ev("verificar_dominio", v, lo, hi)>>, ret |-> NoReq]
    ELSE IF v = "False"
    THEN \* graficar_riemann_dinamico returns None: nothing is printed
         [pc |-> "ask", log |-> graficar_log(v, lo, hi), ret |-> NoReq]
    ELSE IF r.st = "raise"
    THEN [pc  |-> "crashed",
          log |-> graficar_log(v, lo, hi) \o <<Ev("riemann", r.exc, lo, hi)>>,
          ret |-> NoReq]
    ELSE IF ~ExactoDefinido("CI", resolver_integral_exacta(q1))
    THEN [pc  |-> "ask",
          log |-> graficar_log(v, lo, hi) \o <<Ev("riemann", "return", lo, hi)>>
                  \o <<Ev("quad", q1.t, lo, hi)>>,
          ret |-> [NoReq EXCEPT !.resultado = r.val]]
    ELSE \* the division is not guarded: ZeroDivisionError leaves interfaz_usuario
         [pc  |-> IF Compare(r.val, q1, lo, hi).raised THEN "crashed" ELSE "ask",
          log |-> graficar_log(v, lo, hi) \o <<Ev("riemann", "return", lo, hi)>>
                  \o <<Ev("quad", q1.t, lo, hi)>> \o Compare(r.val, q1, lo, hi).log,
          ret |-> Compare(r.val, q1, lo, hi).ret]

mostrar_resultados(im, integ, v, r, q1, q2, lo, hi) ==
    IF im = "Int" THEN mostrar_resultados_Int(integ, v, r, q1, q2, lo, hi)
    ELSE mostrar_resultados_CI(integ, v, r, q1, lo, hi)

InitOrq ==
    /\ pc = "start"
    /\ impl \in Impls
    /\ orden \in Ordenes
    /\ f = NoF /\ a = Zero /\ b = Zero /\ n = 0 /\ method = "none"
    /\ integrador = "none" /\ ret = NoReq /\ evals = <<>> /\ log = <<>>
    /\ entrada = NoEntrada
    /\ suma_actual = SinAnimacion /\ poligonos = 0 /\ frame = -1

\* the method and the number of subintervals the prompts give
metodo_tecleado(im, mi) == IF im = "Int" THEN seleccionar_metodo_riemann(mi) ELSE metodo_CI(mi)
n_tecleado(im, ni) == IF im = "Int" THEN obtener_subintervalos(ni) ELSE n_CI(ni)

\* (mutation: the number of subintervals is asked once per session)
NuevoN_Conserva(im, viejo, ni) == IF viejo > 0 THEN viejo ELSE n_tecleado(im, ni)

\* the n a Riemann request works with: self.n = self._obtener_subintervalos()
\* in Int.py, the local n in interfaz_usuario; the value it had before is
\* overwritten
NuevoN(im, viejo, ni) == n_tecleado(im, ni)

\* the user types the expression; it is tested at 1.0
DefinirFuncion ==
    /\ pc = "start"
    /\ \E e \in OrqExprs :
         /\ f' = definir_funcion(impl, e)
         /\ entrada' = [entrada EXCEPT !.f = definir_funcion(impl, e)]
    /\ pc' = "limites"
    /\ UNCHANGED <<impl, a, b, orden, n, method, ret, evals, integrador, log, suma_actual, poligonos, frame>>

\* the user types the bounds
DefinirLimites ==
    /\ pc = "limites"
    /\ \E inp \in LimitInputs :
         /\ a' = definir_limites(inp)[1]
         /\ b' = definir_limites(inp)[2]
         /\ entrada' = [entrada EXCEPT !.lims = <<inp>>,
                                       !.a = definir_limites(inp)[1],
                                       !.b = definir_limites(inp)[2]]
    /\ pc' = "dominio"
    /\ UNCHANGED <<impl, f, orden, n, method, ret, evals, integrador, log, suma_actual, poligonos, frame>>

\* the domain validation of the request and what follows its verdict
Verificar ==
    /\ pc = "dominio"
    /\ \E r \in {verificar_dominio(impl, f, a, b, orden)} :
         /\ evals' = r.evals
         /\ log' = log \o <<Ev("verificar_dominio", r.st, a, b)>>
                       \o (IF r.st = "False" THEN <<Ev("domain_error", "", a, b)>> ELSE <<>>)
         /\ pc' = IF r.st = "raise" THEN "crashed" ELSE Gate(impl, r.st)
    /\ UNCHANGED <<impl, f, a, b, orden, n, method, ret, integrador, entrada, suma_actual, poligonos, frame>>

\* the user chooses exact resolution or a Riemann sum (method and n)
SeleccionarMetodo ==
    /\ pc = "metodo"
    /\ \E op \in OpcionInputs, mi \in MetodoInputs, ni \in NInputs :
         /\ integrador' = seleccionar_metodo(op)
         /\ IF seleccionar_metodo(op) = "RiemannIntegrator"
            THEN /\ method' = metodo_tecleado(impl, mi)
                 /\ n' = NuevoN(impl, n, ni)
                 /\ entrada' = [entrada EXCEPT !.integrador = "RiemannIntegrator",
                                               !.method = metodo_tecleado(impl, mi),
                                               !.metodo_num = <<mi>>,
                                               !.n = n_tecleado(impl, ni)]
            ELSE \* the integrator object is replaced; self.n stays as it was
                 /\ method' = "none"
                 /\ n' = n
                 /\ entrada' = [entrada EXCEPT !.integrador = "ExactIntegrator"]
    /\ pc' = "resultados"
    /\ UNCHANGED <<impl, f, a, b, orden, ret, evals, log, suma_actual, poligonos, frame>>

\* the integral is computed, drawn, printed and compared
MostrarResultados ==
    /\ pc = "resultados"
    /\ \E v \in {verificar_dominio(impl, f, a, b, orden).st},
          r \in {IF integrador = "RiemannIntegrator" THEN Riemann(impl, f, a, b, n, method)
                 ELSE Returns(Und("none"), <<>>)} :
         \E q1 \in quad(f, a, b), q2 \in quad(f, a, b) :
            \E res \in {mostrar_resultados(impl, integrador, v, r, q1, q2, a, b)} :
               /\ pc' = res.pc
               /\ log' = log \o res.log
               /\ ret' = res.ret
    /\ UNCHANGED <<impl, f, a, b, orden, n, method, evals, integrador, entrada, suma_actual, poligonos, frame>>

\* "calcular otra integral? (s/n)": 's' starts the next request.  The
\* fields of the CalculadoraIntegrales object stay as they are; the locals of
\* interfaz_usuario are new
Again ==
    /\ pc = "ask"
    /\ \E respuesta \in {"s", "n"} :
         IF respuesta = "s"
         THEN /\ pc' = "start"
              /\ log' = <<>> /\ ret' = NoReq /\ evals' = <<>>
              /\ entrada' = NoEntrada
              /\ IF impl = "CI"
                 THEN /\ f' = NoF /\ a' = Zero /\ b' = Zero /\ n' = 0
                      /\ method' = "none" /\ integrador' = "none"
                 ELSE UNCHANGED <<f, a, b, n, method, integrador>>
         ELSE /\ pc' = "done"
              /\ UNCHANGED <<f, a, b, n, method, integrador, log, ret, evals, entrada>>
    /\ UNCHANGED <<impl, orden, suma_actual, poligonos, frame>>

NextOrq ==
    \/ DefinirFuncion \/ DefinirLimites \/ Verificar
    \/ SeleccionarMetodo \/ MostrarResultados \/ Again
SpecOrq == InitOrq /\ [][NextOrq]_vars

-----------------------------------------------------------------------------
(* The Riemann approximators in float arithmetic.  a, b, delta_x, the       *)
(* sample points and suma are Python floats: every operation returns the     *)
(* float nearest to the exact result (ties to the even significand).        *)

Pow2(k) == 2 ^ k

\* the number of binary digits of the integer k >= 1
Bits(k) == CHOOSE j \in 1..31 : k \div Pow2(j - 1) >= 1 /\ (j = 31 \/ k \div Pow2(j) = 0)

\* the number of times 2 divides the integer k >= 1
Twos(k) == CHOOSE t \in 0..30 : k % Pow2(t) = 0 /\ (t = 30 \/ k % Pow2(t + 1) # 0)

\* floor(log2(num / den)) for num, den >= 1
Log2(num, den) ==
    LET l == Bits(num) - Bits(den)
    IN  IF l >= 0 THEN (IF num >= den * Pow2(l) THEN l ELSE l - 1)
        ELSE (IF num * Pow2(-l) >= den THEN l ELSE l - 1)

Min(x, y) == IF x <= y THEN x ELSE y

\* num/den divided by 2^e, powers of two cancelled: <<m, d, e>>
Shift(num, den, e) ==
    IF e >= 0
    THEN <<num \div Pow2(Min(e, Twos(num))), den * Pow2(e - Min(e, Twos(num))), e>>
    ELSE <<num * Pow2((-e) - Min(-e, Twos(den))), den \div Pow2(Min(-e, Twos(den))), e>>

\* for num/den > 0: <<m, d, e + e0>> with num/den = (m/d) * 2^e and
\* 2^(MantissaBits-1) <= m/d < 2^MantissaBits
Normaliza(num, den, e0) ==
    CHOOSE nf \in {Shift(num, den, e) : e \in {Log2(num, den) - (MantissaBits - 1)}} : TRUE

\* the integer nearest to m/d, ties to even
Nearest(m, d) ==
    LET q == m \div d
        r == m - q * d
    IN  IF 2 * r < d THEN q
        ELSE IF 2 * r > d THEN q + 1
        ELSE IF q % 2 = 0 THEN q ELSE q + 1

\* the significand k scaled by 2^e
Scaled(k, e) == IF e >= 0 THEN R(k * Pow2(e)) ELSE Rat(k, Pow2(-e))

\* the float nearest to a positive rational, from its normal form
FloatOf(nf) == Scaled(Nearest(nf[1], nf[2]), nf[3])

\* the float nearest to the rational x
Float(x) ==
    IF x[1] = 0 THEN Zero
    ELSE IF x[1] > 0 THEN FloatOf(Normaliza(x[1], x[2], 0))
    ELSE RSub(Zero, FloatOf(Normaliza(-x[1], x[2], 0)))

\* x + y over the least common denominator
RSum(x, y) ==
    LET l == x[2] * (y[2] \div GCD(x[2], y[2]))
    IN  Rat(x[1] * (l \div x[2]) + y[1] * (l \div y[2]), l)

FAdd(x, y) == Float(RSum(x, y))
FSub(x, y) == Float(RSum(x, <<-y[1], y[2]>>))
FMul(x, y) == Float(RMul(x, y))
FDiv(x, y) == Float(RDiv(x, y))

\* f(x) as a float, for an f defined everywhere
FloatValue(g, x) == Float(Base(g, x))

\* the points f is called at in subinterval i (0-based), in call order
SamplePointsFlo(lo, delta_x, m, i) ==
    CASE m = "left"      -> <<FAdd(lo, FMul(R(i), delta_x))>>
      [] m = "right"     -> <<FAdd(lo, FMul(R(i + 1), delta_x))>>
      [] m = "midpoint"  -> <<FAdd(lo, FMul(<<2 * i + 1, 2>>, delta_x))>>
      [] m = "trapezoid" -> <<FAdd(lo, FMul(R(i), delta_x)), FAdd(lo, FMul(R(i + 1), delta_x))>>

\* what one pass of the loop body adds to suma
Term(g, pts, m, delta_x) ==
    IF m = "trapezoid"
    THEN FMul(FDiv(FAdd(FloatValue(g, pts[1]), FloatValue(g, pts[2])), R(2)), delta_x)
    ELSE FMul(FloatValue(g, pts[1]), delta_x)

RECURSIVE RiemannLoopFlo(_, _, _, _, _, _, _)
\* the loop "for i in range(n)" from index i on; acc holds suma and the
\* points f has been called at so far
RiemannLoopFlo(g, lo, nn, m, delta_x, i, acc) ==
    IF i >= nn THEN acc
    ELSE \* the pass is computed, then the loop goes on with its result
         CHOOSE r \in {RiemannLoopFlo(g, lo, nn, m, delta_x, i + 1, siguiente) :
                          siguiente \in
                            {[suma |-> FAdd(acc.suma,
                                            Term(g, SamplePointsFlo(lo, delta_x, m, i), m, delta_x)),
                              xs   |-> acc.xs \o SamplePointsFlo(lo, delta_x, m, i)]}} : TRUE

\* (mutation: delta_x is the width of the whole interval)
riemann_flo_SinDividir(g, lo, hi, nn, m) ==
    RiemannLoopFlo(g, lo, nn, m, FSub(hi, lo), 0, [suma |-> Zero, xs |-> <<>>])

\* riemann_sum / RiemannIntegrator.integrar for n >= 1, one of the four
\* methods and an f defined everywhere: delta_x = (b - a) / n, then the loop
riemann_flo(g, lo, hi, nn, m) ==
    CHOOSE r \in {RiemannLoopFlo(g, lo, nn, m, delta_x, 0, [suma |-> Zero, xs |-> <<>>]) :
                     delta_x \in {FDiv(FSub(hi, lo), R(nn))}} : TRUE

\* a positive float so small that adding it to 1 gives 1
Tiny == <<1, Pow2(MantissaBits + 1)>>

FloIntervals == {<<R(-1), R(1)>>, <<R(0), R(1)>>, <<R(0), R(2)>>, <<R(-1), Tiny>>}

\* 1, x, x**2 and a step at the upper bound
FloCallables(hi) ==
    {Callable(bs, NoPt, "val", "raw", 0) : bs \in {"one", "x", "sq"}}
    \cup {Callable("step", hi, "val", "raw", 0)}

InitFlo ==
    /\ pc = "idle"
    /\ impl \in Impls
    /\ \E iv \in FloIntervals : a = iv[1] /\ b = iv[2]
    /\ n \in 1..MaxNFlo
    /\ method \in METODOS
    /\ orden = "asc" /\ f = NoF /\ ret = NoRet /\ evals = <<>>
    /\ integrador = "none" /\ log = <<>> /\ entrada = NoEntrada
    /\ suma_actual = SinAnimacion /\ poligonos = 0 /\ frame = -1

\* riemann_sum(f, a, b, n, method), or RiemannIntegrator(f, method).integrar(a, b, n)
Call_riemann_flo ==
    /\ pc = "idle"
    /\ \E g \in FloCallables(b) :
         \E r \in {riemann_flo(g, a, b, n, method)} :
            /\ f' = g
            /\ ret' = [op |-> "riemann_flo", st |-> "return", val |-> Val(r.suma), exc |-> ""]
            /\ evals' = r.xs
    /\ pc' = "returned"
    /\ UNCHANGED <<impl, a, b, orden, n, method, integrador, log, entrada, suma_actual, poligonos, frame>>

\* |approximation - 1/3| of the midpoint rule on x**2 over [0, 1]
ErrorMidpoint(nn) ==
    RAbs(RSub(riemann_flo(Callable("sq", NoPt, "val", "raw", 0), R(0), R(1), nn, "midpoint").suma,
              <<1, 3>>))

\* the convergence run: the midpoint rule on x**2 over [0, 1] with the
\* three numbers of subintervals
Call_convergencia ==
    /\ pc = "idle" /\ a = R(0) /\ b = R(1) /\ method = "midpoint" /\ n = ConvN1
    /\ f' = Callable("sq", NoPt, "val", "raw", 0)
    /\ ret' = [op |-> "convergencia", st |-> "return", val |-> Und("none"), exc |-> "",
               e1 |-> ErrorMidpoint(ConvN1), e2 |-> ErrorMidpoint(ConvN2),
               e3 |-> ErrorMidpoint(ConvN3)]
    /\ evals' = <<>>
    /\ pc' = "returned"
    /\ UNCHANGED <<impl, a, b, orden, n, method, integrador, log, entrada, suma_actual, poligonos, frame>>

\* the points f is called at to draw the polygon of subinterval i, and in
\* Int.py also to update suma_actual: x_left = a + i * delta_x, x_right =
\* a + (i + 1) * delta_x, and (x_left + x_right) / 2 for the midpoint
PolygonPointsFlo(lo, delta_x, m, i) ==
    CASE m = "left"      -> <<FAdd(lo, FMul(R(i), delta_x))>>
      [] m = "right"     -> <<FAdd(lo, FMul(R(i + 1), delta_x))>>
      [] m = "midpoint"  -> <<FDiv(FAdd(FAdd(lo, FMul(R(i), delta_x)),
                                        FAdd(lo, FMul(R(i + 1), delta_x))), R(2))>>
      [] m = "trapezoid" -> <<FAdd(lo, FMul(R(i), delta_x)), FAdd(lo, FMul(R(i + 1), delta_x))>>

\* the points f is called at to update suma_actual in frame i
SumPointsFlo(im, lo, delta_x, m, i) ==
    IF im = "CI" THEN SamplePointsFlo(lo, delta_x, m, i) ELSE PolygonPointsFlo(lo, delta_x, m, i)

\* animate(i) on floats, delta_x = (b - a) / n computed once before the
\* first frame
animate_flo(im, g, lo, delta_x, nn, m, i, suma, pols) ==
    LET s0 == IF i = 0 THEN Zero ELSE suma
        p0 == IF i = 0 THEN 0 ELSE pols
    IN  IF i < nn
        THEN [suma_actual |-> FAdd(s0, Term(g, SumPointsFlo(im, lo, delta_x, m, i), m, delta_x)),
              poligonos   |-> p0 + 1,
              evals       |-> PolygonPointsFlo(lo, delta_x, m, i)
                              \o SumPointsFlo(im, lo, delta_x, m, i)]
        ELSE [suma_actual |-> s0, poligonos |-> p0, evals |-> <<>>]

\* the animated functions: those of the float runs and a step at 0.  All
\* are defined everywhere, so the domain validation that precedes the
\* animation lets them pass
AniCallablesFlo(hi) == FloCallables(hi) \cup {Callable("step", Zero, "val", "raw", 0)}

\* graficar_riemann_dinamico / RiemannIntegrator.graficar up to plt.show(),
\* for n >= 1 and one of the four methods
Call_graficar_flo ==
    /\ pc = "idle"
    /\ f' \in AniCallablesFlo(b)
    /\ pc' = "animando"
    /\ ret' = [op |-> "graficar_flo", st |-> "return", val |-> Und("none"), exc |-> ""]
    /\ suma_actual' = Val(Zero) /\ poligonos' = 0 /\ frame' = -1
    /\ evals' = <<>>
    /\ UNCHANGED <<impl, a, b, orden, n, method, integrador, log, entrada>>

\* the next call of animate by FuncAnimation: frame 0, or the frame after
\* the last
AnimateFlo ==
    /\ pc = "animando"
    /\ \E i \in {0, frame + 1} :
         /\ i <= n
         /\ \E r \in {animate_flo(impl, f, a, FDiv(FSub(b, a), R(n)), n, method, i,
                                  suma_actual.v, poligonos)} :
              /\ suma_actual' = Val(r.suma_actual)
              /\ poligonos' = r.poligonos
              /\ evals' = r.evals
         /\ frame' = i
    /\ UNCHANGED <<pc, impl, f, a, b, orden, n, method, ret, integrador, log, entrada>>

\* the window is closed: graficar_riemann_dinamico returns
\* riemann_sum(f, a, b, n, method), graficar returns None
CerrarFlo ==
    /\ pc = "animando"
    /\ pc' = "returned"
    /\ IF impl = "CI"
       THEN \E r \in {riemann_flo(f, a, b, n, method)} :
              /\ ret' = [op |-> "graficar_flo", st |-> "return", val |-> Val(r.suma), exc |-> ""]
              /\ evals' = r.xs
       ELSE /\ ret' = [op |-> "graficar_flo", st |-> "return", val |-> Und("none"), exc |-> ""]
            /\ evals' = <<>>
    /\ suma_actual' = SinAnimacion /\ poligonos' = 0 /\ frame' = -1
    /\ UNCHANGED <<impl, f, a, b, orden, n, method, integrador, log, entrada>>

NextFlo ==
    \/ Call_riemann_flo \/ Call_convergencia
    \/ Call_graficar_flo \/ AnimateFlo \/ CerrarFlo \/ Return
SpecFlo == InitFlo /\ [][NextFlo]_vars

-----------------------------------------------------------------------------
(* Claims about verificar_dominio *)

Returned == pc = "returned" /\ ret.op = "verificar_dominio"

\* the special points as the specification lists them: the integers of
\* [lo, hi], the rationals j/i with 1 <= i <= MaxDenominator, 0 <= j <= i,
\* and the four constants
ListedSpecialPts(lo, hi) ==
    {p \in {R(i) : i \in (Trunc(lo) - 1)..(Trunc(hi) + 1)}
            \cup UNION {{Rat(j, i) : j \in 0..i} : i \in 1..MaxDenominator}
            \cup valores_especiales :
        RLe(lo, p) /\ RLe(p, hi)}

\* every point the procedure samples for a callable that is a function of
\* the point alone
SampledPts(g, lo, hi) ==
    LET grid == linspace(lo, hi, GridPoints)
        G    == {grid[k] : k \in 1..GridPoints}
        vals == Tup([k \in 1..GridPoints |-> Outcome(g, grid[k], 0)])
        sus  == indices_sospechosos(vals)
        det  == UNION {{RAdd(grid[i], RDiv(RMul(R(k), RSub(grid[i + 1], grid[i])),
                                            R(DetailPoints - 1))) : k \in 0..(DetailPoints - 1)}
                       : i \in sus}
        sp   == ListedSpecialPts(lo, hi)
        prb  == {q \in {RSub(p, tolerancia) : p \in sp} \cup {RAdd(p, tolerancia) : p \in sp} :
                    RLt(lo, q) /\ RLt(q, hi)}
    IN  {lo, hi} \cup G \cup det \cup sp \cup prb

FiniteOn(g, S) == \A x \in S : Finite(Outcome(g, x, 0))

\* C2: for a < b and a callable that is a function of the point, the verdict
\* is True exactly when f is finite at both endpoints, at every grid point,
\* at every refined point of a suspicious gap, at every special point of
\* [a, b] and at every tolerance probe strictly inside (a, b)
C2_ValidIffFiniteOnSamples ==
    (Returned /\ Deterministic(f)) =>
        (ret.st = "True" <=> FiniteOn(f, SampledPts(f, a, b)))

\* C2 happens: x**2, finite everywhere, has been judged valid on [0, 2]
C2_Witness ==
    /\ Returned /\ f.base = "sq" /\ f.at = NoPt /\ f.failFrom = 0
    /\ a = R(0) /\ b = R(2) /\ ret.st = "True"

\* C3: verificar_dominio never raises: whatever evaluation of f fails, the
\* call returns a verdict
C3_NeverRaises == Returned => ret.st \in {"True", "False"}

\* C4: for a < b, a callable undefined at a special point of [a, b] is judged
\* invalid
UndefinedAtSpecial(g, lo, hi) == \E p \in ListedSpecialPts(lo, hi) : ~Finite(Outcome(g, p, 0))

C4_UndefinedSpecialPointInvalid ==
    (Returned /\ Deterministic(f) /\ UndefinedAtSpecial(f, a, b)) => ret.st = "False"

OnGrid(x, lo, hi) == \E k \in 1..GridPoints : linspace(lo, hi, GridPoints)[k] = x

\* C4 happens: a callable undefined at the integer 0 of [-1, 1], which no grid
\* point hits, has been judged invalid
C4_Witness ==
    /\ Returned /\ Deterministic(f) /\ a = R(-1) /\ b = R(1)
    /\ f.at = R(0) /\ f.und = "raise" /\ ~OnGrid(R(0), a, b)
    /\ ret.st = "False"

\* C19: verificar_dominio starts with the endpoints and short-circuits: once
\* f has been evaluated at a point where it is undefined, f is evaluated at
\* no other point; in particular, when f(a) is undefined, f(b) is not
\* evaluated.
C19_ShortCircuit ==
    (Returned /\ Deterministic(f)) =>
        /\ Len(evals) >= 1 /\ evals[1] = a
        /\ \A k \in 1..Len(evals) : \A j \in k..Len(evals) :
              ~Finite(Outcome(f, evals[k], 0)) => evals[j] = evals[k]
        /\ ~Finite(Outcome(f, a, 0)) => \A k \in 1..Len(evals) : evals[k] # b

\* the evaluations the specification gives step 4 for the special point p
ProbesAsSpecified(p, lo, hi) ==
    <<p>>
    \o (IF RLt(lo, RSub(p, tolerancia)) THEN <<RSub(p, tolerancia)>> ELSE <<>>)
    \o (IF RLt(RAdd(p, tolerancia), hi) THEN <<RAdd(p, tolerancia)>> ELSE <<>>)

\* step 4 as specified, the special points taken in the order ps
Step4AsSpecified(ps, lo, hi) ==
    Flatten([k \in 1..Len(ps) |-> ProbesAsSpecified(ps[k], lo, hi)], Len(ps))

\* every element of xs, times times
Repeated(xs, times) == Tup([k \in 1..(times * Len(xs)) |-> xs[((k - 1) \div times) + 1]])

\* seq ends with tail
EndsWith(seq, tail) ==
    /\ Len(tail) <= Len(seq)
    /\ SubSeq(seq, Len(seq) - Len(tail) + 1, Len(seq)) = tail

\* Int.py evaluates f twice at every point it tests (isnan, then isinf)
EvalsPerTest(im) == IF im = "Int" THEN 2 ELSE 1

\* C20: in step 4, every special point p is evaluated, p - tolerance is
\* evaluated exactly when p - tolerance > a and p + tolerance exactly when
\* p + tolerance < b: a validation that runs to its end finishes with
\* exactly these evaluations, in the order of the special points, and no
\* validation ever evaluates f outside [a, b].
C20_ProbeGuards ==
    (Returned /\ Deterministic(f)) =>
        /\ \A k \in 1..Len(evals) : RLe(a, evals[k]) /\ RLe(evals[k], b)
        /\ ret.st = "True" =>
              EndsWith(evals, Repeated(Step4AsSpecified(SpecialOrder(a, b, orden), a, b),
                                       EvalsPerTest(impl)))

\* C20 happens: a validation over [1 - tolerance, b] has run to its end; the
\* special point 1 was evaluated and so was 1 + tolerance, while
\* 1 - tolerance, the lower bound itself, was evaluated by the endpoint and
\* the grid steps only
C20_Witness ==
    /\ Returned /\ Deterministic(f) /\ ret.st = "True"
    /\ a = BelowOne[1] /\ b = BelowOne[2]
    /\ \E k \in 1..Len(evals) : evals[k] = RAdd(R(1), tolerancia)
    /\ Cardinality({k \in 1..Len(evals) : evals[k] = a})
         = Cardinality({k \in 1..Len(evals) : evals[k] = b})

\* the values of f on the grid, as integers in units of a common denominator
GridValues(g, grid) ==
    Escala(Tup([k \in 1..Len(grid) |-> Outcome(g, grid[k], 0).v]),
           LCMDen(Tup([k \in 1..Len(grid) |-> Outcome(g, grid[k], 0).v]), Len(grid)))

\* the gaps the specification calls suspicious, from the differences d of
\* adjacent grid values: d[i] > mean + 3 * stddev, with mean = S / c and
\* stddev^2 = Q / c - mean^2 (S the sum of d, Q the sum of its squares, c
\* their number), that is c * d[i] - S > 3 * sqrt(c * Q - S^2)
SuspiciousGaps(d, S, Q) ==
    {i \in 1..Len(d) :
        Len(d) * d[i] > S
        /\ (Len(d) * d[i] - S) * (Len(d) * d[i] - S) > 9 * (Len(d) * Q - S * S)}

SuspiciousOf(d) ==
    SuspiciousGaps(d, SumSeq(d, Len(d)),
                   SumSeq(Tup([k \in 1..Len(d) |-> d[k] * d[k]]), Len(d)))

\* the absolute differences of adjacent elements of gv
AdjacentDiffs(gv) == Tup([k \in 1..(Len(gv) - 1) |-> Abs(gv[k + 1] - gv[k])])

SuspiciousAsSpecified(g, grid) == SuspiciousOf(AdjacentDiffs(GridValues(g, grid)))

\* the refined samples of gap i: DetailPoints uniformly spaced points from
\* grid[i] to grid[i + 1]
RefinedOfGap(grid, i) ==
    Tup([k \in 1..DetailPoints |->
            RAdd(grid[i], RMul(<<k - 1, DetailPoints - 1>>, RSub(grid[i + 1], grid[i])))])

RECURSIVE RefinedUpTo(_, _, _)
\* the refined samples of the gaps of S among 1..i, in ascending order
RefinedUpTo(grid, S, i) ==
    IF i = 0 THEN <<>>
    ELSE RefinedUpTo(grid, S, i - 1) \o (IF i \in S THEN RefinedOfGap(grid, i) ELSE <<>>)

\* what steps 3 and 4 evaluate, as specified, when nothing stops them
Steps34AsSpecified(g, lo, hi, ord, im) ==
    Repeated(RefinedUpTo(linspace(lo, hi, GridPoints),
                         SuspiciousAsSpecified(g, linspace(lo, hi, GridPoints)),
                         GridPoints - 1)
             \o Step4AsSpecified(SpecialOrder(lo, hi, ord), lo, hi),
             EvalsPerTest(im))

\* the number of evaluations of steps 1, 2 and the recomputing pass
LenPlanA(im) == IF im = "CI" THEN Len(PlanA_CI(a, b)) ELSE Len(PlanA_Int(a, b))

\* seq begins with head
BeginsWith(seq, head) ==
    /\ Len(head) <= Len(seq)
    /\ SubSeq(seq, 1, Len(head)) = head

\* the call went past steps 1 and 2: f is defined on the endpoints and the grid
PastGrid == Returned /\ Deterministic(f) /\ Len(evals) >= LenPlanA(impl)

\* s34 is what steps 3 and 4 specify for the current call, rest what the
\* call evaluated after the grid
AsSteps34(s34, rest) ==
    /\ BeginsWith(s34, rest)
    /\ ret.st = "True" => Len(rest) = Len(s34)
    /\ (\E k \in 1..Len(s34) : ~Finite(Outcome(f, s34[k], 0))) => ret.st = "False"

RefinedNow ==
    RefinedUpTo(linspace(a, b, GridPoints),
                SuspiciousAsSpecified(f, linspace(a, b, GridPoints)), GridPoints - 1)

Evaluados == {evals[k] : k \in 1..Len(evals)}

\* x lies in the closed interval [lo, hi]
Dentro(x, lo, hi) == RLe(lo, x) /\ RLe(x, hi)

\* C25: for a < b and tolerance > 0, whatever f does, every point the
\* validation passes to f (endpoints, grid points, refined points, special
\* points, tolerance probes) lies in the closed interval [a, b].
C25_SamplesInsideInterval ==
    Returned => \A x \in Evaluados : Dentro(x, a, b)

\* C25 happens: a validation over [0, 1] has run to its end; it evaluated
\* the special point 0 and the probe 0 + tolerance, and no special value
\* (pi, e, sqrt(2), sqrt(3)), all of them outside the interval
C25_Witness ==
    /\ Returned /\ ret.st = "True" /\ a = R(0) /\ b = R(1) /\ RLt(Zero, tolerancia)
    /\ tolerancia \in Evaluados
    /\ valores_especiales \cap Evaluados = {}

-----------------------------------------------------------------------------
(* Claims about the Riemann approximators and the evaluators *)

ReturnedRie == pc = "returned" /\ ret.op = "riemann"
ReturnedEval == pc = "returned" /\ ret.op = "evaluar"

\* the value of f at x, where f is defined
FV(g, x) == Outcome(g, x, 0).v

\* sample_i of the four rules, as the specification states them
Sample(g, lo, hi, nn, m, i) ==
    LET dx == RDiv(RSub(hi, lo), R(nn))
        xl == RAdd(lo, RMul(R(i), dx))
        xr == RAdd(lo, RMul(R(i + 1), dx))
        xm == RAdd(lo, RDiv(RMul(R(2 * i + 1), dx), R(2)))
    IN  CASE m = "left"      -> FV(g, xl)
          [] m = "right"     -> FV(g, xr)
          [] m = "midpoint"  -> FV(g, xm)
          [] m = "trapezoid" -> RDiv(RAdd(FV(g, xl), FV(g, xr)), R(2))

RECURSIVE SumUpTo(_, _, _, _, _, _)
\* sample_0 * dx + ... + sample_(k-1) * dx, added in increasing index order
SumUpTo(g, lo, hi, nn, m, k) ==
    IF k = 0 THEN Zero
    ELSE RAdd(SumUpTo(g, lo, hi, nn, m, k - 1),
              RMul(Sample(g, lo, hi, nn, m, k - 1), RDiv(RSub(hi, lo), R(nn))))

\* the points of the rule, subinterval after subinterval
RulePoints(lo, hi, nn, m) ==
    LET dx == RDiv(RSub(hi, lo), R(nn))
        at(j) == RAdd(lo, RMul(<<j, 2>>, dx))     \* a + (j/2) * dx
    IN  CASE m = "left"      -> Tup([i \in 1..nn |-> at(2 * (i - 1))])
          [] m = "right"     -> Tup([i \in 1..nn |-> at(2 * i)])
          [] m = "midpoint"  -> Tup([i \in 1..nn |-> at(2 * i - 1)])
          [] m = "trapezoid" -> Tup([j \in 1..(2 * nn) |->
                                       IF j % 2 = 1 THEN at(j - 1) ELSE at(j)])

SeqRange(xs) == {xs[k] : k \in 1..Len(xs)}

\* C5: for n >= 1 and each of the four methods, on a function defined at
\* every sample, the approximator returns the sum over i = 0..n-1, in
\* increasing index order, of sample_i * dx, and calls f at the points of
\* the rule in that order
C5_RiemannSumFormula ==
    (/\ ReturnedRie /\ n >= 1 /\ method \in METODOS
     /\ \A x \in SeqRange(RulePoints(a, b, n, method)) : Finite(Outcome(f, x, 0)))
    => /\ ret.st = "return"
       /\ ret.val = Val(SumUpTo(f, a, b, n, method, n))
       /\ evals = RulePoints(a, b, n, method)

\* C5 happens: a trapezoid sum of x**2 over n = MaxN subintervals was returned
C5_Witness ==
    /\ ReturnedRie /\ n = MaxN /\ method = "trapezoid" /\ f.base = "sq" /\ f.at = NoPt
    /\ f.wrap = "raw" /\ ret.st = "return" /\ Len(evals) = 2 * MaxN

\* C6: with n <= 0 the call raises the input-validation error, whatever the
\* method and (f, a, b), and f is not evaluated
C6_NonPositiveNRaises ==
    (ReturnedRie /\ n <= 0) =>
        (ret.st = "raise" /\ ret.exc = "ValueError" /\ evals = <<>>)

C6_Witness == ReturnedRie /\ n = 0 /\ method = "left" /\ ret.st = "raise"

\* C7: a method that is none of the four ends in the input-validation error
\* and no number is returned: riemann_sum for every n >= 1, the class
\* RiemannIntegrator for every n
C7_UnknownMethodRaises ==
    (ReturnedRie /\ method \notin METODOS /\ (n >= 1 \/ impl = "Int")) =>
        (ret.st = "raise" /\ ret.exc = "ValueError")

C7_Witness ==
    /\ ReturnedRie /\ method = "simpson" /\ n >= 1 /\ impl = "Int" /\ ret.st = "raise"

\* C9: for valid (a, b, n, method), when f is undefined at a sampled point
\* (the evaluation raises, or returns None or NaN), the call does not crash:
\* it returns, and what it returns is an undefined result
UndefinedSample(g, lo, hi, nn, m) ==
    \E k \in 1..Len(RulePoints(lo, hi, nn, m)) :
        Outcome(g, RulePoints(lo, hi, nn, m)[k], k).t \in {"raise", "none", "nan"}

C9_UndefinedSampleNoCrash ==
    (ReturnedRie /\ n >= 1 /\ method \in METODOS /\ UndefinedSample(f, a, b, n, method))
    => (ret.st = "return" /\ ~Finite(ret.val))

\* C10: an evaluation of a user expression never lets an exception reach the
\* caller: it returns a value or the undefined marker
C10_EvaluationNeverRaises == ReturnedEval => ret.st = "return"

\* the calls of the exact integration that have returned or raised
ReturnedExacta == pc = "returned" /\ ret.op = "exacta"

\* the undefined result of an exact integration: NaN in Int.py, None in
\* Clase_Integrales.py
Indefinido(im) == IF im = "Int" THEN "nan" ELSE "none"

\* C11: exact integration never raises: whatever quad does, the call
\* returns, and when quad (or f inside it) raised the value returned is the
\* undefined result, NaN from ExactIntegrator.integrar and None from
\* resolver_integral_exacta.
C11_ExactNeverRaises ==
    ReturnedExacta =>
        /\ ret.st = "return"
        /\ ret.exc = "raise" => ret.val.t = Indefinido(impl)

\* C11 happens: a call whose quadrature raised has returned the undefined
\* result
C11_Witness ==
    /\ ReturnedExacta /\ ret.exc = "raise"
    /\ ret.st = "return" /\ ret.val.t = Indefinido(impl)

\* C22: for n >= 1, a run of the Riemann approximator that returns has
\* evaluated f exactly n times with left, right and midpoint and exactly
\* 2n times with trapezoid, the only method with two evaluations per
\* subinterval.
C22_EvaluationCount ==
    (ReturnedRie /\ ret.st = "return" /\ n >= 1 /\ method \in METODOS) =>
        Len(evals) = IF method = "trapezoid" THEN 2 * n ELSE n

\* C22 happens: a trapezoid run with MaxN subintervals has returned after
\* 2 * MaxN evaluations
C22_Witness ==
    /\ ReturnedRie /\ ret.st = "return" /\ method = "trapezoid" /\ n = MaxN
    /\ Len(evals) = 2 * MaxN

\* animate has been called at least once and the window is open
Animando == pc = "animando" /\ frame >= 0

\* after animate(frame): the partial Riemann sum over the subintervals
\* 0..frame and frame + 1 polygons; after the last frame, those of frame n - 1
AccumulatorAsSpecified ==
    Animando =>
        /\ suma_actual = Val(SumUpTo(f, a, b, n, method, IF frame < n THEN frame + 1 ELSE n))
        /\ poligonos = IF frame < n THEN frame + 1 ELSE n

\* a call animate(n) leaves the running sum and the polygon list as they were
LastFrameChangesNothing ==
    (pc = "animando" /\ pc' = "animando" /\ frame' = n) =>
        (suma_actual' = suma_actual /\ poligonos' = poligonos)

-----------------------------------------------------------------------------
(* Claims about the orchestrators *)

LogIdx == 1..Len(log)
Integrates(k) == log[k].ev \in {"riemann", "quad"}
Validates(k) == log[k].ev = "verificar_dominio" /\ log[k].lo = a /\ log[k].hi = b
GateInvalid == Len(log) >= 1 /\ log[1].ev = "verificar_dominio" /\ log[1].st = "False"

\* C1: in both orchestrators the domain validation of the request's
\* (f, a, b) runs before any Riemann approximation or exact integration;
\* when its verdict is invalid the request ends with the domain error that
\* names [a, b], and neither the approximator nor quad is called
C1_DomainGateFirst ==
    /\ \A k \in LogIdx : Integrates(k) => (Validates(1) /\ 1 < k /\ log[1].st = "True")
    /\ GateInvalid =>
         /\ log = <<Ev("verificar_dominio", "False", a, b), Ev("domain_error", "", a, b)>>
         /\ pc \in {"ask", "done"}

\* C1 happens: CalculadoraIntegrales has validated an expression undefined at
\* 0 on [-1, 1], found it invalid, and ended the request with the domain
\* error
C1_Witness ==
    /\ GateInvalid /\ impl = "Int" /\ f.at = R(0) /\ a = R(-1) /\ b = R(1) /\ pc = "done"

\* C8: when an approximation is compared with the exact value,
\* abs_error = |exact - approx|; the relative error is abs_error / |exact|
\* when exact # 0; when exact = 0 it is marked undefined and no division
\* by zero is executed
C8_CompareGuardsZeroExact ==
    (ret.op = "request" /\ ret.compared /\ ret.resultado.t = "val" /\ ret.exacto.t = "val") =>
        /\ ret.error = Val(RAbs(RSub(ret.exacto.v, ret.resultado.v)))
        /\ ret.exacto.v # Zero => ret.rel = Val(RDiv(ret.error.v, RAbs(ret.exacto.v)))
        /\ ret.exacto.v = Zero =>
             /\ ret.rel.t = "undefined"
             /\ \A k \in LogIdx : log[k].st # "ZeroDivisionError"

\* the request computed a Riemann sum and its exact integration came back
\* undefined (quad raised, or gave NaN)
RiemannExactoIndefinido ==
    /\ \E i \in LogIdx : log[i].ev = "riemann" /\ log[i].st = "return"
    /\ \E i \in LogIdx : log[i].ev = "quad" /\ log[i].st \in {"raise", "nan"}

\* C12: when the exact integration returns the undefined result during a
\* Riemann request, the request still reports the approximation and ends
\* normally (the question whether to go on is reached), and neither the
\* absolute nor the relative error is computed: no comparison, no division.
C12_UndefinedExactSkipsComparison ==
    RiemannExactoIndefinido =>
        /\ pc \in {"ask", "done"}
        /\ ret.resultado = Riemann(impl, f, a, b, n, method).val
        /\ ~ret.compared
        /\ ret.error = Und("none") /\ ret.rel = Und("none")
        /\ \A i \in LogIdx : log[i].ev # "division"

\* C12 happens: a Riemann request whose exact integration was undefined
\* has reported a finite approximation and reached the question
C12_Witness ==
    /\ RiemannExactoIndefinido /\ pc = "ask"
    /\ ret.resultado.t = "val" /\ ~ret.compared

\* the bounds typed in the current request are numbers with a >= b
LimitesInvertidos ==
    /\ Len(entrada.lims) = 1
    /\ entrada.lims[1].ok /\ ~RLt(entrada.lims[1].a, entrada.lims[1].b)

\* C13: a request whose bounds satisfy a >= b is rejected: the bounds the
\* request works with are never other values than the ones typed, and no
\* validation and no integration is performed for that request.
C13_InvertedBoundsRejected ==
    LimitesInvertidos =>
        /\ a = entrada.lims[1].a /\ b = entrada.lims[1].b
        /\ pc \notin {"metodo", "resultados"}
        /\ \A k \in LogIdx : log[k].ev \notin {"verificar_dominio", "riemann", "quad"}

\* C14: the Riemann approximator keeps no hidden state: the same call
\* (f, a, b, n, method) made a second time, whatever was evaluated in
\* between, ends the same way and returns the same value; the value of an
\* expression-based function at x does not depend on earlier evaluations.
C14_SameCallSameResult ==
    (pc = "returned" /\ ret.op = "riemann_dos") =>
        (ret.st = ret.st1 /\ ret.val = ret.val1)

\* the current request has computed its results
ResultadosHechos == entrada.integrador # "none" /\ pc \in {"ask", "done", "crashed"}

\* the last k entries of the log
LogTail(k) == SubSeq(log, Len(log) - k + 1, Len(log))

\* res is what the results step of the current request has left
DejaResultado(res) ==
    /\ ret = res.ret
    /\ Len(res.log) <= Len(log) /\ LogTail(Len(res.log)) = res.log
    /\ pc \in {res.pc, "done"}

\* C18: requests are independent: in every request of a session, the first
\* as well as those after an answer 's', the verdict of the validation is
\* the verdict on the function and the bounds typed in this request, and
\* the approximation, the exact value and the comparison are what the
\* integrator, the method and the n chosen in this request give on them;
\* nothing an earlier request stored takes part.
C18_RequestsIndependent ==
    /\ (Len(log) >= 1 /\ log[1].ev = "verificar_dominio") =>
          log[1] = Ev("verificar_dominio",
                      verificar_dominio(impl, entrada.f, entrada.a, entrada.b, orden).st,
                      entrada.a, entrada.b)
    /\ ResultadosHechos =>
          \E v \in {verificar_dominio(impl, entrada.f, entrada.a, entrada.b, orden).st},
             r \in {IF entrada.integrador = "RiemannIntegrator"
                    THEN Riemann(impl, entrada.f, entrada.a, entrada.b,
                                 entrada.n, entrada.method)
                    ELSE Returns(Und("none"), <<>>)} :
             \E q1 \in quad(entrada.f, entrada.a, entrada.b),
                q2 \in quad(entrada.f, entrada.a, entrada.b) :
                DejaResultado(mostrar_resultados(impl, entrada.integrador, v, r, q1, q2,
                                                 entrada.a, entrada.b))

\* C18 happens: CalculadoraIntegrales has answered an exact request while
\* the n of an earlier Riemann request is still stored in the object
C18_Witness ==
    /\ impl = "Int" /\ pc = "ask" /\ ResultadosHechos
    /\ entrada.integrador = "ExactIntegrator" /\ n > 0
    /\ ret.resultado.t = "val"

\* the method menu has been answered in the current request
MenuAnswered == entrada.integrador = "RiemannIntegrator" /\ Len(entrada.metodo_num) = 1

\* C24: in the Riemann method menu the inputs 1, 2, 3, 4 select left, right,
\* midpoint, trapezoid, and every other input (a non-integer, or an integer
\* outside 1..4, 0 and the negative numbers included) selects midpoint.
C24_MenuSelectsMethod ==
    MenuAnswered =>
        \A inp \in {entrada.metodo_num[1]} :
            entrada.method = IF inp.ok /\ inp.v \in 1..4 THEN metodos[inp.v] ELSE "midpoint"

\* the request is about to call, or has called, the Riemann approximator
LlamaRiemann == integrador = "RiemannIntegrator" /\ pc \in {"resultados", "ask", "done", "crashed"}

\* C27: in both orchestrators, whatever the user types, the Riemann
\* approximator is called with n >= 1 and one of the four methods only, and
\* no call of it ends with one of its two validation errors.
C27_ValidationErrorsUnreachable ==
    /\ LlamaRiemann => (n >= 1 /\ method \in METODOS)
    /\ \A k \in LogIdx : log[k].ev = "riemann" => log[k].st # "ValueError"

\* C27 happens: the user answered the method menu with something that is
\* not an integer, and the approximator ran and returned
C27_Witness ==
    /\ LlamaRiemann /\ MenuAnswered /\ ~entrada.metodo_num[1].ok
    /\ \E k \in LogIdx : log[k].ev = "riemann" /\ log[k].st = "return"

-----------------------------------------------------------------------------
(* Claims about the Riemann approximators in float arithmetic *)

ReturnedFlo == pc = "returned" /\ ret.op = "riemann_flo"

\* C15: for the constant function f(x) = 1, every a < b and every n >= 1,
\* each of the four methods returns exactly b - a.
C15_ConstantOneExact ==
    (ReturnedFlo /\ f.base = "one") => ret.val = Val(FSub(b, a))

\* C16: the trapezoid rule with n = 1 samples a and b themselves and
\* returns exactly (f(a) + f(b)) / 2 * (b - a).
C16_TrapezoidOneInterval ==
    (ReturnedFlo /\ method = "trapezoid" /\ n = 1) =>
        /\ evals = <<a, b>>
        /\ ret.val = Val(FMul(FDiv(FAdd(FloatValue(f, a), FloatValue(f, b)), R(2)),
                             FSub(b, a)))

C23_AnimationEqualsPureSum ==
    (pc = "animando" /\ frame = n) =>
        suma_actual = Val(riemann_flo(f, a, b, n, method).suma)


====
